---- MODULE Spec2Model ----
(***************************************************************************)
(* Order service of go-restaurant: CreateOrder, GetOrder and ListOrders    *)
(* with their HTTP handlers, the repositories they read and write and the  *)
(* cache they keep.  Every request is a process that advances one          *)
(* repository or cache call at a time.                                     *)
(*                                                                         *)
(* Amounts (Price, TotalPaid, TotalPrice, TotalReturn) are float64 in the  *)
(* source.  The model keeps them as integers: float64 arithmetic is exact  *)
(* on whole amounts below 2^53, which is the range the model draws from.   *)
(* CustomerName, ReceiptCode, SKU, Name, Image and the timestamps are      *)
(* carried through by the code unread and are left out.                    *)
(***************************************************************************)
EXTENDS Integers, Sequences, FiniteSets, TLC

VARIABLES
    products,    \* product rows in storage: id -> <<>> (no row) or <<row>>
    categories,  \* category rows in storage
    users,       \* user rows in storage
    payments,    \* payment rows in storage
    orders,      \* order rows with their lines, in id order (row i has ID i)
    cache,       \* cache entries: key -> serialized value
    req,         \* one record per worker: the request it serves and where it is
    cachedFrom,  \* history: key -> what was serialized into the entry and by which call
    created,     \* history: ids that a CreateOrder has returned successfully
    lastCreated, \* history: the id the last response gave, if a successful CreateOrder, else 0
    env,         \* whether the repository or cache call made next fails
    calls        \* history: per worker, the calls its request has made and which failed

vars == <<products, categories, users, payments, orders, cache, req, cachedFrom, created,
          lastCreated, env, calls>>

(***************************************************************************)
(* Bounds of the model.                                                    *)
(***************************************************************************)
NumProcs == 2
NumProducts == 2
NumCategories == 1
NumUsers == 1
NumPayments == 1
MaxStock == 2
MaxPrice == 2
MaxQty == 2
MaxNegQty == 1
MaxLines == 2
MaxPaid == 4
MaxOrders == 2
MaxCreateOrders == 1
MaxSkip == 2
MaxLimit == 6

\* listOrdersRequest.Limit carries binding:"required,min=5"
MinLimit == 5

Procs == 1..NumProcs
ProductIds == 1..NumProducts
CategoryIds == 1..NumCategories
UserIds == 1..NumUsers
PaymentIds == 1..NumPayments

Min(a, b) == IF a < b THEN a ELSE b

(***************************************************************************)
(* A Go pointer is a sequence of length 0 (nil) or 1 (the value).          *)
(***************************************************************************)
Nil == <<>>
Ptr(v) == <<v>>
IsNil(p) == Len(p) = 0
Deref(p) == p[1]

(***************************************************************************)
(* Errors.  The two named sentinels of cmdomain the order service returns  *)
(* itself, the not-found sentinel of the repositories, and the errors a    *)
(* repository or the cache hands up unclassified.                          *)
(***************************************************************************)
NoError == "nil"
ErrDataNotFound == "ErrDataNotFound"
ErrInsufficientStock == "ErrInsufficientStock"
ErrInsufficientPayment == "ErrInsufficientPayment"
ErrStorage == "storage error"
ErrCache == "cache error"
ErrCacheMiss == "cache miss"
ErrValidation == "validation error"
ErrInternal == "ErrInternal"
ErrConflictingData == "ErrConflictingData"
ErrNoUpdatedData == "ErrNoUpdatedData"
\* the error of cmutil.Deserialize: Internal, as the spec has it
ErrDeserialize == ErrInternal

(***************************************************************************)
(* Cache keys are strings, kept as sequences of characters.                *)
(***************************************************************************)
DigitChars == <<"0", "1", "2", "3", "4", "5", "6", "7", "8", "9">>

RECURSIVE Decimal(_)
Decimal(n) ==
    IF n < 10 THEN <<DigitChars[n + 1]>>
    ELSE Decimal(n \div 10) \o <<DigitChars[(n % 10) + 1]>>

RECURSIVE JoinParams(_)
JoinParams(params) ==
    IF Len(params) = 0 THEN <<>>
    ELSE IF Len(params) = 1 THEN Decimal(params[1])
    ELSE Decimal(params[1]) \o <<"-">> \o JoinParams(Tail(params))

\* cmutil.GenerateCacheKeyParams(params...): the parameters, rendered and joined
GenerateCacheKeyParams(params) == JoinParams(params)

\* cmutil.GenerateCacheKey(prefix, params): "<prefix>:<params>"
GenerateCacheKey(prefix, params) == prefix \o <<":">> \o params

IsPrefix(s, t) == Len(s) <= Len(t) /\ SubSeq(t, 1, Len(s)) = s

\* A key matches a pattern ending in "*" when it starts with what precedes the "*"
MatchesPattern(pattern, key) ==
    IF Len(pattern) > 0 /\ pattern[Len(pattern)] = "*"
    THEN IsPrefix(SubSeq(pattern, 1, Len(pattern) - 1), key)
    ELSE pattern = key

OrderTag == <<"o", "r", "d", "e", "r">>
OrdersTag == <<"o", "r", "d", "e", "r", "s">>

(***************************************************************************)
(* Domain values.  Category carries its id and name, User and Payment     *)
(* their id; Product is                                                    *)
(* domain.Product, OrderProduct is opdomain.OrderProduct and Order is      *)
(* domain.Order, with the pointer fields as pointers.                      *)
(***************************************************************************)
DefaultName == "a"
Category(id) == [ID |-> id, Name |-> DefaultName]
User(id) == [ID |-> id]
Payment(id) == [ID |-> id]
Product(id, categoryId, stock, price) ==
    [ID |-> id, CategoryID |-> categoryId, Stock |-> stock, Price |-> price, Category |-> Nil]
OrderProduct(productId, quantity) ==
    [ProductID |-> productId, Quantity |-> quantity, TotalPrice |-> 0, Product |-> Nil]
NoOrder ==
    [ID |-> 0, UserID |-> 0, PaymentID |-> 0, TotalPrice |-> 0, TotalPaid |-> 0,
     TotalReturn |-> 0, User |-> Nil, Payment |-> Nil, Products |-> <<>>]

(***************************************************************************)
(* cmutil.Serialize and cmutil.Deserialize: the JSON encoding of a value   *)
(* and its decoding.  A JSON value is <<"null">>, <<"num", n>>,            *)
(* <<"str", s>>,                                                           *)
(* <<"arr", elements>> or <<"obj", members>> with members a sequence of    *)
(* <<name, value>> pairs; a nil pointer encodes as null, and decoding      *)
(* reads each field from the member of its name.                           *)
(***************************************************************************)
JNull == <<"null">>
JNum(n) == <<"num", n>>
JStr(s) == <<"str", s>>
JArr(elems) == <<"arr", elems>>
JObj(members) == <<"obj", members>>
JIsNull(v) == v[1] = "null"

Member(obj, name) ==
    LET ms == obj[2]
        i == CHOOSE k \in 1..Len(ms) : ms[k][1] = name
    IN ms[i][2]

EncodeCategory(c) == JObj(<< <<"ID", JNum(c.ID)>>, <<"Name", JStr(c.Name)>> >>)
DecodeCategory(v) == [ID |-> Member(v, "ID")[2], Name |-> Member(v, "Name")[2]]

EncodeUser(u) == JObj(<< <<"ID", JNum(u.ID)>> >>)
DecodeUser(v) == [ID |-> Member(v, "ID")[2]]

EncodePayment(p) == JObj(<< <<"ID", JNum(p.ID)>> >>)
DecodePayment(v) == [ID |-> Member(v, "ID")[2]]

EncodeProduct(p) ==
    JObj(<< <<"ID", JNum(p.ID)>>,
            <<"CategoryID", JNum(p.CategoryID)>>,
            <<"Stock", JNum(p.Stock)>>,
            <<"Price", JNum(p.Price)>>,
            <<"Category", IF IsNil(p.Category) THEN JNull
                          ELSE EncodeCategory(Deref(p.Category))>> >>)
DecodeProduct(v) ==
    [ID |-> Member(v, "ID")[2],
     CategoryID |-> Member(v, "CategoryID")[2],
     Stock |-> Member(v, "Stock")[2],
     Price |-> Member(v, "Price")[2],
     Category |-> IF JIsNull(Member(v, "Category")) THEN Nil
                  ELSE Ptr(DecodeCategory(Member(v, "Category")))]

EncodeOrderProduct(op) ==
    JObj(<< <<"ProductID", JNum(op.ProductID)>>,
            <<"Quantity", JNum(op.Quantity)>>,
            <<"TotalPrice", JNum(op.TotalPrice)>>,
            <<"Product", IF IsNil(op.Product) THEN JNull
                         ELSE EncodeProduct(Deref(op.Product))>> >>)
DecodeOrderProduct(v) ==
    [ProductID |-> Member(v, "ProductID")[2],
     Quantity |-> Member(v, "Quantity")[2],
     TotalPrice |-> Member(v, "TotalPrice")[2],
     Product |-> IF JIsNull(Member(v, "Product")) THEN Nil
                 ELSE Ptr(DecodeProduct(Member(v, "Product")))]

EncodeOrder(o) ==
    JObj(<< <<"ID", JNum(o.ID)>>,
            <<"UserID", JNum(o.UserID)>>,
            <<"PaymentID", JNum(o.PaymentID)>>,
            <<"TotalPrice", JNum(o.TotalPrice)>>,
            <<"TotalPaid", JNum(o.TotalPaid)>>,
            <<"TotalReturn", JNum(o.TotalReturn)>>,
            <<"User", IF IsNil(o.User) THEN JNull ELSE EncodeUser(Deref(o.User))>>,
            <<"Payment", IF IsNil(o.Payment) THEN JNull
                         ELSE EncodePayment(Deref(o.Payment))>>,
            <<"Products", IF Len(o.Products) = 0 THEN JNull
                          ELSE JArr([i \in 1..Len(o.Products) |->
                                        EncodeOrderProduct(o.Products[i])])>> >>)
DecodeOrder(v) ==
    [ID |-> Member(v, "ID")[2],
     UserID |-> Member(v, "UserID")[2],
     PaymentID |-> Member(v, "PaymentID")[2],
     TotalPrice |-> Member(v, "TotalPrice")[2],
     TotalPaid |-> Member(v, "TotalPaid")[2],
     TotalReturn |-> Member(v, "TotalReturn")[2],
     User |-> IF JIsNull(Member(v, "User")) THEN Nil
              ELSE Ptr(DecodeUser(Member(v, "User"))),
     Payment |-> IF JIsNull(Member(v, "Payment")) THEN Nil
                 ELSE Ptr(DecodePayment(Member(v, "Payment"))),
     Products |-> IF JIsNull(Member(v, "Products")) THEN <<>>
                  ELSE LET a == Member(v, "Products")[2]
                       IN [i \in 1..Len(a) |-> DecodeOrderProduct(a[i])]]

\* cmutil.Serialize(order) and cmutil.Deserialize(blob, &order)
SerializeOrder(o) == EncodeOrder(o)
DeserializeOrder(blob) == DecodeOrder(blob)

\* cmutil.Serialize(orders) and cmutil.Deserialize(blob, &orders)
SerializeOrders(os) ==
    IF Len(os) = 0 THEN JNull ELSE JArr([i \in 1..Len(os) |-> EncodeOrder(os[i])])
DeserializeOrders(blob) ==
    IF JIsNull(blob) THEN <<>>
    ELSE [i \in 1..Len(blob[2]) |-> DecodeOrder(blob[2][i])]

(***************************************************************************)
(* Request bodies and what the handlers' binding accepts.                  *)
(***************************************************************************)
QtyValues == (0 - MaxNegQty)..MaxQty
PaidValues == 0..MaxPaid
\* ids a client can name: every stored id and one that no row has
DraftProductIds == 1..(NumProducts + 1)
DraftPaymentIds == 0..(NumPayments + 1)
TokenUserIds == 1..(NumUsers + 1)

\* orderProductRequest
OrderProductRequests == [ProductID : DraftProductIds, Quantity : QtyValues]

ProductLists(n) == UNION {[1..k -> OrderProductRequests] : k \in 0..n}

\* createOrderRequest; HasProducts is FALSE when the body has no "products" member
CreateOrderRequests(lists) ==
    [PaymentID : DraftPaymentIds, TotalPaid : PaidValues, Products : lists,
     HasProducts : {TRUE}]
    \cup [PaymentID : {1}, TotalPaid : {1}, Products : {<<>>}, HasProducts : {FALSE}]

\* ShouldBindJSON(&req) on createOrderRequest: payment_id, total_paid and products
\* are "required" (non-zero, non-nil); the elements of products are not validated
BindCreateOrder(body) ==
    /\ body.PaymentID # 0
    /\ body.TotalPaid # 0
    /\ body.HasProducts

\* ShouldBindUri(&req) on getOrderRequest: id is "required,min=1"
BindGetOrder(id) == id # 0 /\ id >= 1

\* ShouldBindQuery(&req) on listOrdersRequest: skip "required,min=0", limit "required,min=5"
BindListOrders(skip, limit) ==
    /\ skip # 0 /\ skip >= 0
    /\ limit # 0 /\ limit >= MinLimit

\* OrderHandler.CreateOrder: the domain.Order built from the bound request
DraftOrder(body, userId) ==
    [NoOrder EXCEPT
        !.UserID = userId,
        !.PaymentID = body.PaymentID,
        !.TotalPaid = body.TotalPaid,
        !.Products = [k \in 1..Len(body.Products) |->
                         OrderProduct(body.Products[k].ProductID,
                                      body.Products[k].Quantity)]]

(***************************************************************************)
(* Repositories.  Each call returns <<value, err>>; `fail` is the call     *)
(* failing in storage (connection, query or scan error).                   *)
(***************************************************************************)
Row(table, id) == IF id \in DOMAIN table THEN table[id] ELSE Nil

\* ProductRepository.GetProductByID
GetProductByID(id, fail) ==
    IF fail THEN <<Nil, ErrStorage>>
    ELSE IF IsNil(Row(products, id)) THEN <<Nil, ErrDataNotFound>>
    ELSE <<Row(products, id), NoError>>

\* CategoryRepository.GetCategoryByID
GetCategoryByID(id, fail) ==
    IF fail THEN <<Nil, ErrStorage>>
    ELSE IF IsNil(Row(categories, id)) THEN <<Nil, ErrDataNotFound>>
    ELSE <<Row(categories, id), NoError>>

\* UserRepository.GetUserByID
GetUserByID(id, fail) ==
    IF fail THEN <<Nil, ErrStorage>>
    ELSE IF IsNil(Row(users, id)) THEN <<Nil, ErrDataNotFound>>
    ELSE <<Row(users, id), NoError>>

\* PaymentRepository.GetPaymentByID
GetPaymentByID(id, fail) ==
    IF fail THEN <<Nil, ErrStorage>>
    ELSE IF IsNil(Row(payments, id)) THEN <<Nil, ErrDataNotFound>>
    ELSE <<Row(payments, id), NoError>>

\* OrderRepository.CreateOrder: the order as stored, with the id storage gives it
StoredOrder(order) == [order EXCEPT !.ID = Len(orders) + 1]

\* faulty variant: the new row written over the last one
OrderOverLast(rows, order) ==
    IF rows = <<>> THEN <<order>> ELSE [rows EXCEPT ![Len(rows)] = order]

\* OrderRepository.CreateOrder: the orders table after the call; a row is added
\* for the order and its lines, no row there was is written
InsertOrder(rows, order) == Append(rows, order)

\* faulty variant: the stock of every ordered product taken down by the quantity
ProductsLessOrdered(rows, order) ==
    [id \in DOMAIN rows |->
        IF \E k \in 1..Len(order.Products) : order.Products[k].ProductID = id
        THEN LET k == CHOOSE k \in 1..Len(order.Products) : order.Products[k].ProductID = id
             IN Ptr([Deref(rows[id]) EXCEPT !.Stock = @ - order.Products[k].Quantity])
        ELSE rows[id]]

\* OrderRepository.CreateOrder: the products table after the call; the order and its
\* lines are inserted, no product row is written
ProductsAfterCreateOrder(rows, order) == rows

\* faulty variant: an empty order, and no error, for an id with no row
GetOrderByIDOrEmpty(id, fail) ==
    IF fail THEN <<Nil, ErrStorage>>
    ELSE IF id \in 1..Len(orders) THEN <<Ptr(orders[id]), NoError>>
    ELSE <<Ptr(NoOrder), NoError>>

\* OrderRepository.GetOrderByID
GetOrderByID(id, fail) ==
    IF fail THEN <<Nil, ErrStorage>>
    ELSE IF id \in 1..Len(orders) THEN <<Ptr(orders[id]), NoError>>
    ELSE <<Nil, ErrDataNotFound>>

\* OrderRepository.ListOrders: rows in id order, OFFSET skip LIMIT limit
OrdersPage(skip, limit) == SubSeq(orders, skip + 1, Min(skip + limit, Len(orders)))

(***************************************************************************)
(* Cache.                                                                  *)
(***************************************************************************)
\* faulty variant: a Get that never fails
CacheGetUnfailing(key, fail) ==
    IF key \in DOMAIN cache THEN <<cache[key], NoError>> ELSE <<JNull, ErrCacheMiss>>

\* CacheRepository.Get: <<value, err>>; a key with no entry is an error too
CacheGet(key, fail) ==
    IF fail THEN <<JNull, ErrCache>>
    ELSE IF key \in DOMAIN cache THEN <<cache[key], NoError>>
    ELSE <<JNull, ErrCacheMiss>>

\* CacheRepository.Set(key, value, 0): the entries after the call
CacheSet(entries, key, value) ==
    [k \in DOMAIN entries \cup {key} |-> IF k = key THEN value ELSE entries[k]]

\* CacheRepository.DeleteByPrefix(pattern): the entries after the call
CacheDeleteByPrefix(entries, pattern) ==
    [k \in {x \in DOMAIN entries : ~MatchesPattern(pattern, x)} |-> entries[k]]

(***************************************************************************)
(* Requests.  pc names the repository or cache call the request makes      *)
(* next; order, totalPrice, i, j, product and list are the locals of the   *)
(* service method; err is what it returned once pc is "done" (then order,  *)
(* or list for ListOrders, is the value returned when err is nil).         *)
(* History, fixed when the request comes in: after is the id a successful  *)
(* CreateOrder returned when that was the last response before, else 0;    *)
(* ordersBefore and keysBefore are the number of stored orders and the     *)
(* keys of the cache at that moment.                                       *)
(***************************************************************************)
\* gin.Context of a request the router has not been handed: no handler chain, no
\* header, nothing stored under a key, no response written
NoContext ==
    [route |-> "none", handlers |-> <<>>, index |-> 0, header |-> Nil, now |-> 0,
     payload |-> Nil, status |-> 0, aborted |-> FALSE, ran |-> FALSE]

IdleReq ==
    [op |-> "none", pc |-> "idle", order |-> NoOrder, totalPrice |-> 0, i |-> 0, j |-> 0,
     user |-> Nil, product |-> Nil, list |-> <<>>, id |-> 0, skip |-> 0, limit |-> 0,
     err |-> NoError, hit |-> FALSE, after |-> 0, ordersBefore |-> 0, keysBefore |-> {},
     ctx |-> NoContext, query |-> Nil, category |-> Nil, input |-> Nil, token |-> Nil]

\* a request of kind op as it comes in
NewReq(op) ==
    [IdleReq EXCEPT !.op = op, !.after = lastCreated, !.ordersBefore = Len(orders),
                    !.keysBefore = DOMAIN cache]

Return(r, err) ==
    [r EXCEPT !.pc = "done", !.err = err, !.totalPrice = 0, !.i = 0, !.j = 0,
              !.user = Nil, !.product = Nil]

At(p, op, pc) == req[p].op = op /\ req[p].pc = pc

\* worker p is free
CanAccept(p) == req[p].pc = "idle"

\* requests arrive one at a time: the next is taken, by the first worker, once the
\* one before has been answered
OneAtATime(p) == p = 1 /\ \A q \in Procs : req[q].pc = "idle"

(***************************************************************************)
(* The cache keys of the order service, and an entry that cannot be read   *)
(* back: bytes cmutil.Deserialize returns an error for.                    *)
(***************************************************************************)
\* cmutil.GenerateCacheKey("order", id)
OrderCacheKey(id) == GenerateCacheKey(OrderTag, Decimal(id))

\* faulty variant: the key derived from skip alone
OrdersCacheKeyOfSkip(skip, limit) ==
    GenerateCacheKey(OrdersTag, GenerateCacheKeyParams(<<skip>>))

\* params := GenerateCacheKeyParams(skip, limit); cacheKey := GenerateCacheKey("orders", params)
OrdersCacheKey(skip, limit) ==
    GenerateCacheKey(OrdersTag, GenerateCacheKeyParams(<<skip, limit>>))

\* an entry that is no JSON of an order or of a list of orders
JBad == <<"bad">>

\* cmutil.Deserialize(blob, &v) returns an error
DeserializeFails(blob) == blob[1] = "bad"

\* faulty variant: the entry never used
CacheNeverAnswered(err) == FALSE

\* `if err == nil` after cache.Get: the entry is used; with any error, the error of
\* a failed Get as that of a key with no entry, the method goes on to storage
CacheAnswered(err) == err = NoError

\* cmutil.GenerateCacheKey("product", id) and cmutil.GenerateCacheKey("category", id)
ProductCacheKey(id) == GenerateCacheKey(<<"p", "r", "o", "d", "u", "c", "t">>, Decimal(id))
CategoryCacheKey(id) ==
    GenerateCacheKey(<<"c", "a", "t", "e", "g", "o", "r", "y">>, Decimal(id))

\* the key a read request reads
ReadKey(r) ==
    CASE r.op = "GetOrder" -> OrderCacheKey(r.id)
      [] r.op = "GetProduct" -> ProductCacheKey(r.id)
      [] r.op = "GetCategory" -> CategoryCacheKey(r.id)
      [] OTHER -> OrdersCacheKey(r.skip, r.limit)

(***************************************************************************)
(* History of the calls of a request.  made counts the repository and      *)
(* cache calls it has made; getFailed is its cache Get having failed (a    *)
(* key with no entry is no failure); failedCall and failedErr are the      *)
(* first other call that returned an error, and that error; afterFailure   *)
(* counts the calls made after failedCall; undecodable is its cache Get    *)
(* having returned an entry that cannot be deserialized.                   *)
(***************************************************************************)
NoCalls ==
    [made |-> 0, getFailed |-> FALSE, failedCall |-> "none", failedErr |-> NoError,
     afterFailure |-> 0, undecodable |-> FALSE]

CachePcs == {"cacheget", "invalidate", "set"}

CallPcs == CachePcs \cup {"check", "create", "user", "payment", "product", "category", "fetch"}

\* the error the call that request r makes next returns, `fail` being the call failing
CallError(r, fail) ==
    LET order == IF r.op = "ListOrders" THEN r.list[r.i] ELSE r.order
        line == IF r.op = "ListOrders" THEN order.Products[r.j] ELSE order.Products[r.i]
    IN CASE r.pc \in CachePcs -> IF fail THEN ErrCache ELSE NoError
         [] r.pc \in {"check", "product"} -> GetProductByID(line.ProductID, fail)[2]
         [] r.pc = "category" -> GetCategoryByID(Deref(r.product).CategoryID, fail)[2]
         [] r.pc = "user" -> GetUserByID(order.UserID, fail)[2]
         [] r.pc = "payment" -> GetPaymentByID(order.PaymentID, fail)[2]
         [] r.pc = "fetch" /\ r.op = "GetOrder" -> GetOrderByID(r.id, fail)[2]
         [] OTHER -> IF fail THEN ErrStorage ELSE NoError

\* the history of a request after the step it takes from r, `fail` as above
Log(c, r, fail) ==
    IF r.pc \notin CallPcs THEN NoCalls
    ELSE LET err == CallError(r, fail)
             first == c.failedCall = "none" /\ r.pc # "cacheget" /\ err # NoError
         IN [made |-> c.made + 1,
             getFailed |-> c.getFailed \/ (r.pc = "cacheget" /\ fail),
             failedCall |-> IF first THEN r.pc ELSE c.failedCall,
             failedErr |-> IF first THEN err ELSE c.failedErr,
             afterFailure |-> IF c.failedCall # "none" THEN c.afterFailure + 1 ELSE 0,
             undecodable |-> \/ c.undecodable
                             \/ /\ r.pc = "cacheget"
                                /\ CacheGet(ReadKey(r), fail)[2] = NoError
                                /\ DeserializeFails(CacheGet(ReadKey(r), fail)[1])]

\* worker p has taken a step: its history, and whether the call made next fails
Logged(p) ==
    /\ calls' = [calls EXCEPT ![p] = Log(calls[p], req[p], env)]
    /\ env' \in IF \E q \in Procs : req'[q].pc \in CallPcs THEN BOOLEAN ELSE {FALSE}

(***************************************************************************)
(* OrderService.CreateOrder                                                *)
(***************************************************************************)
\* faulty variant: the comparison turned round
InsufficientStockReversed(product, orderProduct) == product.Stock > orderProduct.Quantity

\* faulty variant: the stock never compared
StockNeverInsufficient(product, orderProduct) == FALSE

\* product.Stock < orderProduct.Quantity
InsufficientStock(product, orderProduct) == product.Stock < orderProduct.Quantity

\* faulty variant: the line total without the quantity
UnitPriceAsLineTotal(product, orderProduct) == product.Price

\* product.Price * float64(orderProduct.Quantity)
LineTotalPrice(product, orderProduct) == product.Price * orderProduct.Quantity

\* order.TotalPaid < totalPrice
InsufficientPayment(order, totalPrice) == order.TotalPaid < totalPrice

\* faulty variant: the change computed with its operands swapped
WithReturnOfPriceLessPaid(order, totalPrice) ==
    [order EXCEPT !.TotalPrice = totalPrice, !.TotalReturn = totalPrice - order.TotalPaid]

\* order.TotalPrice = totalPrice; order.TotalReturn = order.TotalPaid - order.TotalPrice
WithTotals(order, totalPrice) ==
    [order EXCEPT !.TotalPrice = totalPrice, !.TotalReturn = order.TotalPaid - totalPrice]

\* after the loop over order.Products: the payment check and the totals
\* faulty variant: the order goes to storage without the payment compared
AfterStockCheckUnpaid(r) ==
    [r EXCEPT !.order = WithTotals(r.order, r.totalPrice), !.pc = "create"]

AfterStockCheck(r) ==
    IF InsufficientPayment(r.order, r.totalPrice)
    THEN Return(r, ErrInsufficientPayment)
    ELSE [r EXCEPT !.order = WithTotals(r.order, r.totalPrice), !.pc = "create"]

\* faulty variant: the payment compared, line by line, ahead of the stock
CheckLinePaymentFirst(r, product) ==
    LET lineTotal == LineTotalPrice(product, r.order.Products[r.i])
        next == [r EXCEPT !.order.Products[r.i].TotalPrice = lineTotal,
                          !.totalPrice = r.totalPrice + lineTotal]
    IN IF InsufficientPayment(r.order, next.totalPrice)
       THEN Return(r, ErrInsufficientPayment)
       ELSE IF InsufficientStock(product, r.order.Products[r.i])
       THEN Return(r, ErrInsufficientStock)
       ELSE IF r.i < Len(r.order.Products)
       THEN [next EXCEPT !.i = r.i + 1]
       ELSE AfterStockCheck(next)

\* the body of the loop over order.Products for line r.i, its product fetched
\* faulty variant: a line over its stock is passed over unless it is the last
CheckLineLastOnly(r, product) ==
    IF InsufficientStock(product, r.order.Products[r.i]) /\ r.i = Len(r.order.Products)
    THEN Return(r, ErrInsufficientStock)
    ELSE LET lineTotal == LineTotalPrice(product, r.order.Products[r.i])
             next == [r EXCEPT !.order.Products[r.i].TotalPrice = lineTotal,
                               !.totalPrice = r.totalPrice + lineTotal]
         IN IF r.i < Len(r.order.Products)
            THEN [next EXCEPT !.i = r.i + 1]
            ELSE AfterStockCheck(next)

CheckLine(r, product) ==
    IF InsufficientStock(product, r.order.Products[r.i])
    THEN Return(r, ErrInsufficientStock)
    ELSE LET lineTotal == LineTotalPrice(product, r.order.Products[r.i])
             next == [r EXCEPT !.order.Products[r.i].TotalPrice = lineTotal,
                               !.totalPrice = r.totalPrice + lineTotal]
         IN IF r.i < Len(r.order.Products)
            THEN [next EXCEPT !.i = r.i + 1]
            ELSE AfterStockCheck(next)

\* entry of CreateOrder, up to its first repository call
EnterCreateOrder(r) ==
    IF Len(r.order.Products) = 0
    THEN AfterStockCheck(r)
    ELSE [r EXCEPT !.pc = "check", !.i = 1]

\* OrderHandler.CreateOrder: bind the request, build the draft, call the service
HandleCreateOrder(p, bodies, maxOrders) ==
    /\ CanAccept(p)
    /\ Len(orders) < maxOrders
    /\ \E body \in bodies, userId \in TokenUserIds :
          LET r == NewReq("CreateOrder")
          IN req' = [req EXCEPT ![p] =
                        IF BindCreateOrder(body)
                        THEN EnterCreateOrder([r EXCEPT !.order = DraftOrder(body, userId)])
                        ELSE Return(r, ErrValidation)]
    /\ UNCHANGED <<products, categories, users, payments, orders, cache, cachedFrom, created, lastCreated>>
    /\ Logged(p)

\* productRepo.GetProductByID for line i, then the stock check and the line total
CreateOrderCheckProduct(p) ==
    /\ At(p, "CreateOrder", "check")
    /\ \E fail \in {env} :
          LET r == req[p]
              got == GetProductByID(r.order.Products[r.i].ProductID, fail)
          IN req' = [req EXCEPT ![p] =
                        IF got[2] # NoError THEN Return(r, got[2])
                        ELSE CheckLine(r, Deref(got[1]))]
    /\ UNCHANGED <<products, categories, users, payments, orders, cache, cachedFrom, created, lastCreated>>
    /\ Logged(p)

\* orderRepo.CreateOrder
CreateOrderPersist(p) ==
    /\ At(p, "CreateOrder", "create")
    /\ \E fail \in {env} :
          IF fail
          THEN /\ req' = [req EXCEPT ![p] = Return(req[p], ErrStorage)]
               /\ orders' = orders
          ELSE /\ orders' = InsertOrder(orders, StoredOrder(req[p].order))
               /\ req' = [req EXCEPT ![p].order = StoredOrder(req[p].order),
                                     ![p].pc = "user"]
    /\ products' = ProductsAfterCreateOrder(products, req[p].order)
    /\ UNCHANGED <<categories, users, payments, cache, cachedFrom, created, lastCreated>>
    /\ Logged(p)

\* order.User = user; order.Payment = payment
WithUserPayment(order, user, payment) ==
    [order EXCEPT !.User = user, !.Payment = payment]

\* faulty variant: the product attached without its category
WithProductOnly(order, i, product, category) ==
    [order EXCEPT !.Products[i].Product = product]

\* order.Products[i].Product = product; order.Products[i].Product.Category = category
WithProduct(order, i, product, category) ==
    [order EXCEPT !.Products[i].Product = Ptr([Deref(product) EXCEPT !.Category = category])]

\* faulty variant: only a missing row ends the call, a failure of storage does not
LookupFailedWhenMissing(err) == err = ErrDataNotFound

\* faulty variant: only a failure of storage ends the call, a missing row does not
LookupFailedInStorage(err) == err = ErrStorage

\* `if err != nil { return nil, err }` after the user and the payment lookup
LookupFailed(err) == err # NoError

\* faulty variant: a failing cache call is passed over
CacheNeverFailed(err) == FALSE

\* `if err != nil { return nil, err }` after DeleteByPrefix, Serialize and Set
CacheFailed(err) == err # NoError

\* userRepo.GetUserByID(order.UserID)
CreateOrderGetUser(p) ==
    /\ At(p, "CreateOrder", "user")
    /\ \E fail \in {env} :
          LET r == req[p]
              got == GetUserByID(r.order.UserID, fail)
          IN req' = [req EXCEPT ![p] =
                        IF LookupFailed(got[2]) THEN Return(r, got[2])
                        ELSE [r EXCEPT !.user = got[1], !.pc = "payment"]]
    /\ UNCHANGED <<products, categories, users, payments, orders, cache, cachedFrom, created, lastCreated>>
    /\ Logged(p)

\* paymentRepo.GetPaymentByID(order.PaymentID), then User and Payment are attached
CreateOrderGetPayment(p) ==
    /\ At(p, "CreateOrder", "payment")
    /\ \E fail \in {env} :
          LET r == req[p]
              got == GetPaymentByID(r.order.PaymentID, fail)
              order == WithUserPayment(r.order, r.user, got[1])
          IN req' = [req EXCEPT ![p] =
                        IF LookupFailed(got[2]) THEN Return(r, got[2])
                        ELSE IF Len(order.Products) = 0
                        THEN [r EXCEPT !.order = order, !.user = Nil, !.pc = "invalidate"]
                        ELSE [r EXCEPT !.order = order, !.user = Nil, !.pc = "product",
                                       !.i = 1]]
    /\ UNCHANGED <<products, categories, users, payments, orders, cache, cachedFrom, created, lastCreated>>
    /\ Logged(p)

\* productRepo.GetProductByID for line i of the persisted order
CreateOrderGetProduct(p) ==
    /\ At(p, "CreateOrder", "product")
    /\ \E fail \in {env} :
          LET r == req[p]
              got == GetProductByID(r.order.Products[r.i].ProductID, fail)
          IN req' = [req EXCEPT ![p] =
                        IF got[2] # NoError THEN Return(r, got[2])
                        ELSE [r EXCEPT !.product = got[1], !.pc = "category"]]
    /\ UNCHANGED <<products, categories, users, payments, orders, cache, cachedFrom, created, lastCreated>>
    /\ Logged(p)

\* categoryRepo.GetCategoryByID(product.CategoryID), then the product is attached
CreateOrderGetCategory(p) ==
    /\ At(p, "CreateOrder", "category")
    /\ \E fail \in {env} :
          LET r == req[p]
              got == GetCategoryByID(Deref(r.product).CategoryID, fail)
              order == WithProduct(r.order, r.i, r.product, got[1])
          IN req' = [req EXCEPT ![p] =
                        IF got[2] # NoError THEN Return(r, got[2])
                        ELSE IF r.i < Len(order.Products)
                        THEN [r EXCEPT !.order = order, !.product = Nil, !.pc = "product",
                                       !.i = r.i + 1]
                        ELSE [r EXCEPT !.order = order, !.product = Nil,
                                       !.pc = "invalidate", !.i = 0]]
    /\ UNCHANGED <<products, categories, users, payments, orders, cache, cachedFrom, created, lastCreated>>
    /\ Logged(p)

\* faulty variant: the pattern of the single-order namespace
OrderPattern == OrderTag \o <<":", "*">>

\* the pattern CreateOrder hands to cache.DeleteByPrefix
OrdersPattern == OrdersTag \o <<":", "*">>

\* cache.DeleteByPrefix(ctx, "orders:*")
CreateOrderInvalidate(p) ==
    /\ At(p, "CreateOrder", "invalidate")
    /\ \E fail \in {env} :
          LET err == IF fail THEN ErrCache ELSE NoError
          IN
          IF CacheFailed(err)
          THEN /\ req' = [req EXCEPT ![p] = Return(req[p], err)]
               /\ UNCHANGED <<cache, cachedFrom>>
          ELSE /\ cache' = CacheDeleteByPrefix(cache, OrdersPattern)
               /\ cachedFrom' = CacheDeleteByPrefix(cachedFrom, OrdersPattern)
               /\ req' = [req EXCEPT ![p].pc = "set"]
    /\ UNCHANGED <<products, categories, users, payments, orders, created, lastCreated>>
    /\ Logged(p)

\* cmutil.Serialize(order) and cache.Set(ctx, cacheKey, orderSerialized, 0)
CreateOrderCache(p) ==
    /\ At(p, "CreateOrder", "set")
    /\ \E fail \in {env} :
          LET r == req[p]
              key == OrderCacheKey(r.order.ID)
              err == IF fail THEN ErrCache ELSE NoError
          IN IF CacheFailed(err)
             THEN /\ req' = [req EXCEPT ![p] = Return(r, err)]
                  /\ UNCHANGED <<cache, cachedFrom>>
             ELSE /\ cache' = CacheSet(cache, key, SerializeOrder(r.order))
                  /\ cachedFrom' = CacheSet(cachedFrom, key,
                                            [value |-> r.order, by |-> <<r.order.ID>>])
                  /\ req' = [req EXCEPT ![p] = Return(r, NoError)]
    /\ UNCHANGED <<products, categories, users, payments, orders, created, lastCreated>>
    /\ Logged(p)

\* the handler writes the response and the worker is free again
Respond(p) ==
    /\ req[p].pc = "done"
    /\ LET ok == req[p].op = "CreateOrder" /\ req[p].err = NoError
       IN /\ created' = IF ok THEN created \cup {req[p].order.ID} ELSE created
          /\ lastCreated' = IF ok THEN req[p].order.ID ELSE 0
    /\ req' = [req EXCEPT ![p] = IdleReq]
    /\ UNCHANGED <<products, categories, users, payments, orders, cache, cachedFrom>>
    /\ Logged(p)

(***************************************************************************)
(* OrderService.GetOrder                                                   *)
(***************************************************************************)
\* OrderHandler.GetOrder, for the ids of a set: bind the uri, call the service
HandleGetOrderOf(p, ids) ==
    /\ CanAccept(p)
    /\ \E id \in ids :
          LET r == [NewReq("GetOrder") EXCEPT !.id = id]
          IN req' = [req EXCEPT ![p] =
                        IF BindGetOrder(id) THEN [r EXCEPT !.pc = "cacheget"]
                        ELSE Return(r, ErrValidation)]
    /\ UNCHANGED <<products, categories, users, payments, orders, cache, cachedFrom, created, lastCreated>>
    /\ Logged(p)

\* OrderHandler.GetOrder
HandleGetOrder(p) == HandleGetOrderOf(p, 0..(MaxOrders + 1))

\* faulty variant: the lines of the cached order dropped
OrderFromCacheWithoutLines(blob) == [DeserializeOrder(blob) EXCEPT !.Products = <<>>]

\* on a hit: cmutil.Deserialize(cachedOrder, &order); return order, nil
OrderFromCache(blob) == DeserializeOrder(blob)

\* faulty variant: storage read when the entry cannot be deserialized
FallBackToStorage(r) == [r EXCEPT !.pc = "fetch"]

\* `if err != nil { return nil, err }` after cmutil.Deserialize of the entry
DeserializeFailed(r) == Return(r, ErrDeserialize)

\* cache.Get(ctx, cacheKey); with no error the entry is deserialized and returned
GetOrderFromCache(p) ==
    /\ At(p, "GetOrder", "cacheget")
    /\ \E fail \in {env} :
          LET r == req[p]
              got == CacheGet(OrderCacheKey(r.id), fail)
          IN req' = [req EXCEPT ![p] =
                        IF CacheAnswered(got[2])
                        THEN IF DeserializeFails(got[1]) THEN DeserializeFailed(r)
                             ELSE Return([r EXCEPT !.order = OrderFromCache(got[1]),
                                                   !.hit = TRUE], NoError)
                        ELSE [r EXCEPT !.pc = "fetch"]]
    /\ UNCHANGED <<products, categories, users, payments, orders, cache, cachedFrom, created, lastCreated>>
    /\ Logged(p)

\* orderRepo.GetOrderByID(ctx, id)
GetOrderFetch(p) ==
    /\ At(p, "GetOrder", "fetch")
    /\ \E fail \in {env} :
          LET r == req[p]
              got == GetOrderByID(r.id, fail)
          IN req' = [req EXCEPT ![p] =
                        IF got[2] # NoError THEN Return(r, got[2])
                        ELSE [r EXCEPT !.order = Deref(got[1]), !.pc = "user"]]
    /\ UNCHANGED <<products, categories, users, payments, orders, cache, cachedFrom, created, lastCreated>>
    /\ Logged(p)

\* userRepo.GetUserByID(order.UserID)
GetOrderGetUser(p) ==
    /\ At(p, "GetOrder", "user")
    /\ \E fail \in {env} :
          LET r == req[p]
              got == GetUserByID(r.order.UserID, fail)
          IN req' = [req EXCEPT ![p] =
                        IF got[2] # NoError THEN Return(r, got[2])
                        ELSE [r EXCEPT !.user = got[1], !.pc = "payment"]]
    /\ UNCHANGED <<products, categories, users, payments, orders, cache, cachedFrom, created, lastCreated>>
    /\ Logged(p)

\* paymentRepo.GetPaymentByID(order.PaymentID), then User and Payment are attached
GetOrderGetPayment(p) ==
    /\ At(p, "GetOrder", "payment")
    /\ \E fail \in {env} :
          LET r == req[p]
              got == GetPaymentByID(r.order.PaymentID, fail)
              order == WithUserPayment(r.order, r.user, got[1])
          IN req' = [req EXCEPT ![p] =
                        IF got[2] # NoError THEN Return(r, got[2])
                        ELSE IF Len(order.Products) = 0
                        THEN [r EXCEPT !.order = order, !.user = Nil, !.pc = "set"]
                        ELSE [r EXCEPT !.order = order, !.user = Nil, !.pc = "product",
                                       !.i = 1]]
    /\ UNCHANGED <<products, categories, users, payments, orders, cache, cachedFrom, created, lastCreated>>
    /\ Logged(p)

\* productRepo.GetProductByID for line i
GetOrderGetProduct(p) ==
    /\ At(p, "GetOrder", "product")
    /\ \E fail \in {env} :
          LET r == req[p]
              got == GetProductByID(r.order.Products[r.i].ProductID, fail)
          IN req' = [req EXCEPT ![p] =
                        IF got[2] # NoError THEN Return(r, got[2])
                        ELSE [r EXCEPT !.product = got[1], !.pc = "category"]]
    /\ UNCHANGED <<products, categories, users, payments, orders, cache, cachedFrom, created, lastCreated>>
    /\ Logged(p)

\* categoryRepo.GetCategoryByID(product.CategoryID), then the product is attached
GetOrderGetCategory(p) ==
    /\ At(p, "GetOrder", "category")
    /\ \E fail \in {env} :
          LET r == req[p]
              got == GetCategoryByID(Deref(r.product).CategoryID, fail)
              order == WithProduct(r.order, r.i, r.product, got[1])
          IN req' = [req EXCEPT ![p] =
                        IF got[2] # NoError THEN Return(r, got[2])
                        ELSE IF r.i < Len(order.Products)
                        THEN [r EXCEPT !.order = order, !.product = Nil, !.pc = "product",
                                       !.i = r.i + 1]
                        ELSE [r EXCEPT !.order = order, !.product = Nil, !.pc = "set",
                                       !.i = 0]]
    /\ UNCHANGED <<products, categories, users, payments, orders, cache, cachedFrom, created, lastCreated>>
    /\ Logged(p)

\* cmutil.Serialize(order) and cache.Set(ctx, cacheKey, orderSerialized, 0)
GetOrderCache(p) ==
    /\ At(p, "GetOrder", "set")
    /\ \E fail \in {env} :
          LET r == req[p]
              key == OrderCacheKey(r.id)
          IN IF fail
             THEN /\ req' = [req EXCEPT ![p] = Return(r, ErrCache)]
                  /\ UNCHANGED <<cache, cachedFrom>>
             ELSE /\ cache' = CacheSet(cache, key, SerializeOrder(r.order))
                  /\ cachedFrom' = CacheSet(cachedFrom, key,
                                            [value |-> r.order, by |-> <<r.id>>])
                  /\ req' = [req EXCEPT ![p] = Return(r, NoError)]
    /\ UNCHANGED <<products, categories, users, payments, orders, created, lastCreated>>
    /\ Logged(p)

(***************************************************************************)
(* OrderService.ListOrders                                                 *)
(***************************************************************************)
\* the line the second loop of ListOrders visits first at or after order i: <<i, 1>>,
\* or <<0, 0>> when no order from i on has a line
RECURSIVE FirstLine(_, _)
FirstLine(list, i) ==
    IF i > Len(list) THEN <<0, 0>>
    ELSE IF Len(list[i].Products) > 0 THEN <<i, 1>>
    ELSE FirstLine(list, i + 1)

\* the line the second loop visits after line j of order i
NextLine(list, i, j) ==
    IF j < Len(list[i].Products) THEN <<i, j + 1>> ELSE FirstLine(list, i + 1)

\* OrderHandler.ListOrders, for the pages of two sets: bind the query, call the service
HandleListOrdersOf(p, skips, limits) ==
    /\ CanAccept(p)
    /\ \E skip \in skips, limit \in limits :
          LET r == [NewReq("ListOrders") EXCEPT !.skip = skip, !.limit = limit]
          IN req' = [req EXCEPT ![p] =
                        IF BindListOrders(skip, limit) THEN [r EXCEPT !.pc = "cacheget"]
                        ELSE Return(r, ErrValidation)]
    /\ UNCHANGED <<products, categories, users, payments, orders, cache, cachedFrom, created, lastCreated>>
    /\ Logged(p)

\* OrderHandler.ListOrders
HandleListOrders(p) == HandleListOrdersOf(p, 0..MaxSkip, (MinLimit - 1)..MaxLimit)

\* on a hit: cmutil.Deserialize(cachedOrders, &orders); return orders, nil
OrdersFromCache(blob) == DeserializeOrders(blob)

\* cache.Get(ctx, cacheKey); with no error the entry is deserialized and returned
ListOrdersFromCache(p) ==
    /\ At(p, "ListOrders", "cacheget")
    /\ \E fail \in {env} :
          LET r == req[p]
              got == CacheGet(OrdersCacheKey(r.skip, r.limit), fail)
          IN req' = [req EXCEPT ![p] =
                        IF CacheAnswered(got[2])
                        THEN IF DeserializeFails(got[1]) THEN DeserializeFailed(r)
                             ELSE Return([r EXCEPT !.list = OrdersFromCache(got[1]),
                                                   !.hit = TRUE], NoError)
                        ELSE [r EXCEPT !.pc = "fetch"]]
    /\ UNCHANGED <<products, categories, users, payments, orders, cache, cachedFrom, created, lastCreated>>
    /\ Logged(p)

\* orderRepo.ListOrders(ctx, skip, limit)
ListOrdersFetch(p) ==
    /\ At(p, "ListOrders", "fetch")
    /\ \E fail \in {env} :
          LET r == req[p]
              page == OrdersPage(r.skip, r.limit)
          IN req' = [req EXCEPT ![p] =
                        IF fail THEN Return(r, ErrStorage)
                        ELSE IF Len(page) = 0 THEN [r EXCEPT !.list = page, !.pc = "set"]
                        ELSE [r EXCEPT !.list = page, !.pc = "user", !.i = 1]]
    /\ UNCHANGED <<products, categories, users, payments, orders, cache, cachedFrom, created, lastCreated>>
    /\ Logged(p)

\* first loop: userRepo.GetUserByID(order.UserID) for order i
ListOrdersGetUser(p) ==
    /\ At(p, "ListOrders", "user")
    /\ \E fail \in {env} :
          LET r == req[p]
              got == GetUserByID(r.list[r.i].UserID, fail)
          IN req' = [req EXCEPT ![p] =
                        IF got[2] # NoError THEN Return(r, got[2])
                        ELSE [r EXCEPT !.user = got[1], !.pc = "payment"]]
    /\ UNCHANGED <<products, categories, users, payments, orders, cache, cachedFrom, created, lastCreated>>
    /\ Logged(p)

\* first loop: paymentRepo.GetPaymentByID(order.PaymentID), then both are attached
ListOrdersGetPayment(p) ==
    /\ At(p, "ListOrders", "payment")
    /\ \E fail \in {env} :
          LET r == req[p]
              got == GetPaymentByID(r.list[r.i].PaymentID, fail)
              list == [r.list EXCEPT ![r.i] = WithUserPayment(r.list[r.i], r.user, got[1])]
              first == FirstLine(list, 1)
          IN req' = [req EXCEPT ![p] =
                        IF got[2] # NoError THEN Return(r, got[2])
                        ELSE IF r.i < Len(list)
                        THEN [r EXCEPT !.list = list, !.user = Nil, !.pc = "user",
                                       !.i = r.i + 1]
                        ELSE IF first[1] = 0
                        THEN [r EXCEPT !.list = list, !.user = Nil, !.pc = "set", !.i = 0]
                        ELSE [r EXCEPT !.list = list, !.user = Nil, !.pc = "product",
                                       !.i = first[1], !.j = first[2]]]
    /\ UNCHANGED <<products, categories, users, payments, orders, cache, cachedFrom, created, lastCreated>>
    /\ Logged(p)

\* second loop: productRepo.GetProductByID for line j of order i
ListOrdersGetProduct(p) ==
    /\ At(p, "ListOrders", "product")
    /\ \E fail \in {env} :
          LET r == req[p]
              got == GetProductByID(r.list[r.i].Products[r.j].ProductID, fail)
          IN req' = [req EXCEPT ![p] =
                        IF got[2] # NoError THEN Return(r, got[2])
                        ELSE [r EXCEPT !.product = got[1], !.pc = "category"]]
    /\ UNCHANGED <<products, categories, users, payments, orders, cache, cachedFrom, created, lastCreated>>
    /\ Logged(p)

\* second loop: categoryRepo.GetCategoryByID(product.CategoryID), then the product is attached
ListOrdersGetCategory(p) ==
    /\ At(p, "ListOrders", "category")
    /\ \E fail \in {env} :
          LET r == req[p]
              got == GetCategoryByID(Deref(r.product).CategoryID, fail)
              list == [r.list EXCEPT ![r.i] = WithProduct(r.list[r.i], r.j, r.product, got[1])]
              next == NextLine(list, r.i, r.j)
          IN req' = [req EXCEPT ![p] =
                        IF got[2] # NoError THEN Return(r, got[2])
                        ELSE IF next[1] = 0
                        THEN [r EXCEPT !.list = list, !.product = Nil, !.pc = "set",
                                       !.i = 0, !.j = 0]
                        ELSE [r EXCEPT !.list = list, !.product = Nil, !.pc = "product",
                                       !.i = next[1], !.j = next[2]]]
    /\ UNCHANGED <<products, categories, users, payments, orders, cache, cachedFrom, created, lastCreated>>
    /\ Logged(p)

\* cmutil.Serialize(orders) and cache.Set(ctx, cacheKey, ordersSerialized, 0)
ListOrdersCache(p) ==
    /\ At(p, "ListOrders", "set")
    /\ \E fail \in {env} :
          LET r == req[p]
              key == OrdersCacheKey(r.skip, r.limit)
          IN IF fail
             THEN /\ req' = [req EXCEPT ![p] = Return(r, ErrCache)]
                  /\ UNCHANGED <<cache, cachedFrom>>
             ELSE /\ cache' = CacheSet(cache, key, SerializeOrders(r.list))
                  /\ cachedFrom' = CacheSet(cachedFrom, key,
                                            [value |-> r.list, by |-> <<r.skip, r.limit>>])
                  /\ req' = [req EXCEPT ![p] = Return(r, NoError)]
    /\ UNCHANGED <<products, categories, users, payments, orders, created, lastCreated>>
    /\ Logged(p)

(***************************************************************************)
(* ProductService.UpdateProduct, called with a new price only, and the     *)
(* response body of an order line.                                         *)
(***************************************************************************)
ProductsPattern == <<"p", "r", "o", "d", "u", "c", "t", "s", ":", "*">>

\* CacheRepository.Delete(key): the entries after the call
CacheDelete(entries, key) == [k \in DOMAIN entries \ {key} |-> entries[k]]

\* ProductRepository.UpdateProduct: price = COALESCE(NullFloat64(price), price)
WithPrice(row, price) ==
    IF price = 0 THEN row ELSE Ptr([Deref(row) EXCEPT !.Price = price])

\* the calls of UpdateProduct whose error ends it, in the order it makes them:
\* GetProductByID, GetCategoryByID, the repository's UpdateProduct, cache.Set and
\* cache.DeleteByPrefix
UpdateProductCalls == 1..5

\* UpdateProduct(product{ID: id, Price: price}) from its first call to its return;
\* failAt is the call that fails (0: none), deleteFails the cache.Delete failing,
\* whose error is dropped
UpdateProduct(p) ==
    /\ CanAccept(p)
    /\ \E id \in ProductIds, price \in 0..MaxPrice, failAt \in {0} \cup UpdateProductCalls,
          deleteFails \in BOOLEAN :
          LET existing == Row(products, id)
              found == failAt # 1 /\ ~IsNil(existing)
              category == IF found THEN Row(categories, Deref(existing).CategoryID) ELSE Nil
              checked == found /\ price # 0 /\ failAt # 2 /\ ~IsNil(category)
              updated == checked /\ failAt # 3
              product == [Deref(WithPrice(existing, price)) EXCEPT !.Category = category]
              key == ProductCacheKey(id)
              didSet == updated /\ failAt # 4
              deleted == IF updated /\ ~deleteFails THEN CacheDelete(cache, key) ELSE cache
              set == IF didSet THEN CacheSet(deleted, key, EncodeProduct(product)) ELSE deleted
              cleared == IF didSet /\ failAt # 5 THEN CacheDeleteByPrefix(set, ProductsPattern)
                         ELSE set
          IN /\ products' = IF updated THEN [products EXCEPT ![id] = WithPrice(existing, price)]
                            ELSE products
             /\ cache' = cleared
             /\ cachedFrom' = [k \in DOMAIN cleared |->
                                  IF k = key /\ didSet
                                  THEN [value |-> product, by |-> <<id>>]
                                  ELSE cachedFrom[k]]
    /\ UNCHANGED <<categories, users, payments, orders, req, created, lastCreated, env, calls>>

\* the history of a read request that ran from its first call to its return
CallsOf(made, getFailed, undecodable, failedCall, failedErr) ==
    [made |-> made, getFailed |-> getFailed, failedCall |-> failedCall,
     failedErr |-> failedErr, afterFailure |-> 0, undecodable |-> undecodable]

\* CategoryService.GetCategory(id) from its first call to its return; failAt is the
\* call that fails (0: none): cache.Get, GetCategoryByID, Serialize and cache.Set
GetCategory(p) ==
    /\ CanAccept(p)
    /\ \E id \in 1..(NumCategories + 1), failAt \in 0..3 :
          LET key == CategoryCacheKey(id)
              got == CacheGet(key, failAt = 1)
              answered == CacheAnswered(got[2])
              bad == answered /\ DeserializeFails(got[1])
              row == GetCategoryByID(id, failAt = 2)
              err == IF answered THEN (IF bad THEN ErrInternal ELSE NoError)
                     ELSE IF row[2] = ErrDataNotFound THEN row[2]
                     ELSE IF row[2] # NoError \/ failAt = 3 THEN ErrInternal
                     ELSE NoError
              stored == ~answered /\ err = NoError
              failed == IF answered THEN "none"
                        ELSE IF row[2] # NoError THEN "category"
                        ELSE IF failAt = 3 THEN "set" ELSE "none"
              r == [NewReq("GetCategory") EXCEPT !.id = id, !.hit = answered /\ ~bad]
          IN /\ req' = [req EXCEPT ![p] = Return(r, err)]
             /\ cache' = IF stored THEN CacheSet(cache, key, EncodeCategory(Deref(row[1])))
                         ELSE cache
             /\ cachedFrom' = IF stored
                              THEN CacheSet(cachedFrom, key,
                                            [value |-> Deref(row[1]), by |-> <<id>>])
                              ELSE cachedFrom
             /\ calls' = [calls EXCEPT ![p] =
                             CallsOf(IF answered THEN 1 ELSE IF row[2] # NoError THEN 2 ELSE 3,
                                     failAt = 1, bad, failed,
                                     IF failed = "category" THEN row[2]
                                     ELSE IF failed = "set" THEN ErrCache ELSE NoError)]
    /\ UNCHANGED <<products, categories, users, payments, orders, created, lastCreated, env>>

\* ProductService.GetProduct(id) from its first call to its return; failAt is the
\* call that fails (0: none): cache.Get, GetProductByID, GetCategoryByID, Serialize
\* and cache.Set
GetProduct(p) ==
    /\ CanAccept(p)
    /\ \E id \in 1..(NumProducts + 1), failAt \in 0..4 :
          LET key == ProductCacheKey(id)
              got == CacheGet(key, failAt = 1)
              answered == CacheAnswered(got[2])
              bad == answered /\ DeserializeFails(got[1])
              row == GetProductByID(id, failAt = 2)
              category == IF row[2] = NoError
                          THEN GetCategoryByID(Deref(row[1]).CategoryID, failAt = 3)
                          ELSE <<Nil, row[2]>>
              err == IF answered THEN (IF bad THEN ErrDeserialize ELSE NoError)
                     ELSE IF row[2] # NoError THEN row[2]
                     ELSE IF category[2] # NoError THEN category[2]
                     ELSE IF failAt = 4 THEN ErrCache
                     ELSE NoError
              stored == ~answered /\ err = NoError
              failed == IF answered \/ err = NoError THEN "none"
                        ELSE IF row[2] # NoError THEN "product"
                        ELSE IF category[2] # NoError THEN "category" ELSE "set"
              product == [Deref(row[1]) EXCEPT !.Category = category[1]]
              r == [NewReq("GetProduct") EXCEPT !.id = id, !.hit = answered /\ ~bad]
          IN /\ req' = [req EXCEPT ![p] = Return(r, err)]
             /\ cache' = IF stored THEN CacheSet(cache, key, EncodeProduct(product)) ELSE cache
             /\ cachedFrom' = IF stored
                              THEN CacheSet(cachedFrom, key, [value |-> product, by |-> <<id>>])
                              ELSE cachedFrom
             /\ calls' = [calls EXCEPT ![p] =
                             CallsOf(IF answered THEN 1
                                     ELSE IF row[2] # NoError THEN 2
                                     ELSE IF category[2] # NoError THEN 3 ELSE 4,
                                     failAt = 1, bad, failed,
                                     IF failed = "none" THEN NoError ELSE err)]
    /\ UNCHANGED <<products, categories, users, payments, orders, created, lastCreated, env>>

\* ProductService.DeleteProduct(id) from its first call to its return; failAt is
\* the call that fails (0: none): GetProductByID, cache.DeleteByPrefix and the
\* repository's DeleteProduct; deleteFails is cache.Delete failing, whose error is
\* dropped
DeleteProduct(p) ==
    /\ CanAccept(p)
    /\ \E id \in 1..(NumProducts + 1), failAt \in 0..3, deleteFails \in BOOLEAN :
          LET key == ProductCacheKey(id)
              got == GetProductByID(id, failAt = 1)
              found == got[2] = NoError
              err == IF ~found THEN got[2]
                     ELSE IF failAt = 2 THEN ErrCache
                     ELSE IF failAt = 3 THEN ErrStorage
                     ELSE NoError
              deleted == IF found /\ ~deleteFails THEN CacheDelete(cache, key) ELSE cache
              cleared == IF found /\ failAt # 2
                         THEN CacheDeleteByPrefix(deleted, ProductsPattern)
                         ELSE deleted
              failed == IF err = NoError THEN "none"
                        ELSE IF ~found THEN "product"
                        ELSE IF failAt = 2 THEN "invalidate" ELSE "delete"
              r == [NewReq("DeleteProduct") EXCEPT !.id = id]
          IN /\ req' = [req EXCEPT ![p] = Return(r, err)]
             /\ products' = IF err = NoError THEN [products EXCEPT ![id] = Nil]
                            ELSE products
             /\ cache' = cleared
             /\ cachedFrom' = [k \in DOMAIN cleared |-> cachedFrom[k]]
             /\ calls' = [calls EXCEPT ![p] =
                             CallsOf(IF ~found THEN 1 ELSE IF failAt = 2 THEN 3 ELSE 4,
                                     FALSE, FALSE, failed, err)]
    /\ UNCHANGED <<categories, users, payments, orders, created, lastCreated, env>>

\* NewOrderProductResponse: the body of line k of an order
OrderProductResponse(orderProduct) ==
    [ProductID |-> orderProduct.ProductID,
     Quantity |-> orderProduct.Quantity,
     Price |-> Deref(orderProduct.Product).Price,
     TotalNormalPrice |-> orderProduct.TotalPrice,
     TotalFinalPrice |-> orderProduct.TotalPrice]

NewOrderProductResponse(orderProducts) ==
    [k \in 1..Len(orderProducts) |-> OrderProductResponse(orderProducts[k])]

(***************************************************************************)
(* The system.  Storage starts with a catalogue of products, each in a     *)
(* stored category, the users and the payment methods; no order yet and an *)
(* empty cache.                                                            *)
(***************************************************************************)
EmptyCache == [k \in {} |-> JNull]

\* the rows the products table can hold
ProductRows ==
    {Ptr(Product(id, c, st, pr)) : id \in ProductIds, c \in CategoryIds,
                                   st \in 0..MaxStock, pr \in 1..MaxPrice}

\* what every start has in common: users, payment methods and categories stored,
\* no order, nothing cached, every worker free
InitRest ==
    /\ categories = [id \in CategoryIds |-> Ptr(Category(id))]
    /\ users = [id \in UserIds |-> Ptr(User(id))]
    /\ payments = [id \in PaymentIds |-> Ptr(Payment(id))]
    /\ orders = <<>>
    /\ cache = EmptyCache
    /\ cachedFrom = EmptyCache
    /\ req = [p \in Procs |-> IdleReq]
    /\ created = {}
    /\ lastCreated = 0
    /\ env = FALSE
    /\ calls = [p \in Procs |-> NoCalls]

\* any catalogue
InitCreate ==
    /\ products \in {f \in [ProductIds -> ProductRows] :
                        \A id \in ProductIds : Deref(f[id]).ID = id}
    /\ InitRest

\* a catalogue with every product in stock
Init ==
    /\ products \in {f \in [ProductIds -> ProductRows] :
                        \A id \in ProductIds : /\ Deref(f[id]).ID = id
                                               /\ Deref(f[id]).Stock = MaxStock
                                               /\ Deref(f[id]).Price = MaxPrice}
    /\ InitRest

\* the requests for one unit of one stored product, or for nothing, paid in full
SmallOrderRequests ==
    {body \in CreateOrderRequests(ProductLists(1)) :
        /\ body.PaymentID = 1
        /\ body.TotalPaid = MaxPaid
        /\ body.HasProducts
        /\ \A k \in 1..Len(body.Products) :
              /\ body.Products[k].ProductID \in ProductIds
              /\ body.Products[k].Quantity = 1}

CreateOrderStep(p) ==
    \/ CreateOrderCheckProduct(p)
    \/ CreateOrderPersist(p)
    \/ CreateOrderGetUser(p)
    \/ CreateOrderGetPayment(p)
    \/ CreateOrderGetProduct(p)
    \/ CreateOrderGetCategory(p)
    \/ CreateOrderInvalidate(p)
    \/ CreateOrderCache(p)

GetOrderStep(p) ==
    \/ GetOrderFromCache(p)
    \/ GetOrderFetch(p)
    \/ GetOrderGetUser(p)
    \/ GetOrderGetPayment(p)
    \/ GetOrderGetProduct(p)
    \/ GetOrderGetCategory(p)
    \/ GetOrderCache(p)

ListOrdersStep(p) ==
    \/ ListOrdersFromCache(p)
    \/ ListOrdersFetch(p)
    \/ ListOrdersGetUser(p)
    \/ ListOrdersGetPayment(p)
    \/ ListOrdersGetProduct(p)
    \/ ListOrdersGetCategory(p)
    \/ ListOrdersCache(p)

\* the three order routes, serving small orders
Next ==
    \E p \in Procs :
        \/ OneAtATime(p) /\ HandleCreateOrder(p, SmallOrderRequests, MaxOrders)
        \/ OneAtATime(p) /\ HandleGetOrder(p)
        \/ OneAtATime(p) /\ HandleListOrders(p)
        \/ CreateOrderStep(p)
        \/ GetOrderStep(p)
        \/ ListOrdersStep(p)
        \/ Respond(p)

Spec == Init /\ [][Next]_vars

\* POST /v1/orders alone, over every request body, on any catalogue
NextCreate ==
    \E p \in Procs :
        \/ OneAtATime(p)
              /\ HandleCreateOrder(p, CreateOrderRequests(ProductLists(MaxLines)),
                                   MaxCreateOrders)
        \/ CreateOrderStep(p)
        \/ Respond(p)

SpecCreate == InitCreate /\ [][NextCreate]_vars

\* the requests for one unit of the first product, paid in full
FirstProductRequests ==
    {body \in SmallOrderRequests :
        Len(body.Products) = 1 /\ body.Products[1].ProductID = 1}

\* the three order routes, reading the last order the model creates and the first
\* page that holds it, with prices changed between the requests
NextPrice ==
    \E p \in Procs :
        \/ OneAtATime(p) /\ HandleCreateOrder(p, FirstProductRequests, MaxOrders)
        \/ OneAtATime(p) /\ HandleGetOrderOf(p, {MaxOrders})
        \/ OneAtATime(p) /\ HandleListOrdersOf(p, {MaxOrders - 1}, {MinLimit})
        \/ OneAtATime(p) /\ UpdateProduct(p)
        \/ CreateOrderStep(p)
        \/ GetOrderStep(p)
        \/ ListOrdersStep(p)
        \/ Respond(p)

SpecPrice == Init /\ [][NextPrice]_vars

\* something other than the services overwrites an entry of the cache, between two
\* requests, with bytes that cannot be deserialized
CorruptEntry ==
    /\ \A q \in Procs : req[q].pc = "idle"
    /\ \E key \in DOMAIN cache :
          /\ ~DeserializeFails(cache[key])
          /\ cache' = [cache EXCEPT ![key] = JBad]
    /\ UNCHANGED <<products, categories, users, payments, orders, req, cachedFrom, created,
                   lastCreated, env, calls>>

\* the three order routes, reading any order and the first page that can hold one,
\* and the reads of a category and of a product, with entries of the cache
\* overwritten between the requests
NextCorrupt ==
    \/ CorruptEntry
    \/ \E p \in Procs :
          \/ OneAtATime(p) /\ HandleCreateOrder(p, FirstProductRequests, MaxOrders)
          \/ OneAtATime(p) /\ HandleGetOrderOf(p, 1..MaxOrders)
          \/ OneAtATime(p) /\ HandleListOrdersOf(p, {MaxOrders - 1}, {MinLimit})
          \/ OneAtATime(p) /\ GetCategory(p)
          \/ OneAtATime(p) /\ GetProduct(p)
          \/ CreateOrderStep(p)
          \/ GetOrderStep(p)
          \/ ListOrdersStep(p)
          \/ Respond(p)

SpecCorrupt == Init /\ [][NextCorrupt]_vars

\* the reads, updates and deletions of products and the reads of categories, one
\* request at a time
NextProduct ==
    \E p \in Procs :
        \/ OneAtATime(p) /\ GetCategory(p)
        \/ OneAtATime(p) /\ GetProduct(p)
        \/ OneAtATime(p) /\ UpdateProduct(p)
        \/ OneAtATime(p) /\ DeleteProduct(p)
        \/ Respond(p)

SpecProduct == Init /\ [][NextProduct]_vars

\* the requests for some units of one stored product, paid in full
OneLineOrderRequests ==
    {body \in CreateOrderRequests(ProductLists(1)) :
        /\ body.PaymentID = 1
        /\ body.TotalPaid = MaxPaid
        /\ Len(body.Products) = 1
        /\ body.Products[1].ProductID \in ProductIds
        /\ body.Products[1].Quantity \in 1..MaxQty}

\* POST /v1/orders served by every worker at once: the calls of the requests in
\* flight interleave
NextConcurrent ==
    \E p \in Procs :
        \/ HandleCreateOrder(p, OneLineOrderRequests, MaxOrders)
        \/ CreateOrderStep(p)
        \/ Respond(p)

SpecConcurrent == Init /\ [][NextConcurrent]_vars

(***************************************************************************)
(* Properties of CreateOrder's checks and totals (SpecCreate).             *)
(***************************************************************************)
\* a CreateOrder that the handler passed to the service and that has returned
ReturnedCreateOrder(p) ==
    /\ req[p].op = "CreateOrder"
    /\ req[p].pc = "done"
    /\ req[p].err # ErrValidation

\* the stored row of the product line k of draft o names, nil when there is none
LineProduct(o, k) == Row(products, o.Products[k].ProductID)

AllProductsExist(o) == \A k \in 1..Len(o.Products) : ~IsNil(LineProduct(o, k))

ExceedsStock(o, k) ==
    /\ ~IsNil(LineProduct(o, k))
    /\ o.Products[k].Quantity > Deref(LineProduct(o, k)).Stock

WithinStock(o) == \A k \in 1..Len(o.Products) : ~ExceedsStock(o, k)

\* price x quantity of line k, from the stored product
LineDue(o, k) == Deref(LineProduct(o, k)).Price * o.Products[k].Quantity

\* the sum over lines 1..n of price x quantity
RECURSIVE DueUpTo(_, _)
DueUpTo(o, n) == IF n = 0 THEN 0 ELSE DueUpTo(o, n - 1) + LineDue(o, n)

Due(o) == DueUpTo(o, Len(o.Products))

UserAndPaymentExist(o) ==
    /\ ~IsNil(Row(users, o.UserID))
    /\ ~IsNil(Row(payments, o.PaymentID))

CategoriesExist(o) ==
    \A k \in 1..Len(o.Products) :
        ~IsNil(Row(categories, Deref(LineProduct(o, k)).CategoryID))

\* the call made no repository or cache call that failed
NoFailure(p) == req[p].err \notin {ErrStorage, ErrCache}

\* the order the call returned is stored, with every line total price x quantity
\* and total_price their sum
StoredWithExactTotals(p) ==
    LET o == req[p].order
    IN /\ req[p].err = NoError
       /\ o.ID \in 1..Len(orders)
       /\ Len(orders[o.ID].Products) = Len(o.Products)
       /\ \A k \in 1..Len(o.Products) :
             /\ o.Products[k].TotalPrice = LineDue(o, k)
             /\ orders[o.ID].Products[k].TotalPrice = LineDue(o, k)
       /\ orders[o.ID].TotalPrice = Due(o)
       /\ o.TotalPrice = Due(o)

FirstExceeding(o) ==
    IF WithinStock(o) THEN 0
    ELSE CHOOSE k \in 1..Len(o.Products) :
            ExceedsStock(o, k) /\ \A j \in 1..(k - 1) : ~ExceedsStock(o, j)

MissingBefore(o, k) == \E j \in 1..(k - 1) : IsNil(LineProduct(o, j))

NothingPersisted(p) == Len(orders) = req[p].ordersBefore

\* C2 as stated: a draft with a line whose quantity exceeds the product's stock
\* fails with InsufficientStock (no product lookup failing in storage) and no
\* order is persisted.
C2_ExceedingLineGivesInsufficientStock ==
    \A p \in Procs :
        (ReturnedCreateOrder(p) /\ ~WithinStock(req[p].order) /\ req[p].err # ErrStorage)
        => (req[p].err = ErrInsufficientStock /\ NothingPersisted(p))

\* C2 amended: a draft with a line whose quantity exceeds the product's stock fails
\* and no order is persisted; the error is InsufficientStock when every line before
\* the first such line names a stored product, and the not-found error of the
\* product lookup when one of them does not (a lookup failing in storage aside).
C2_ExceedingLineFailsTheOrder ==
    \A p \in Procs :
        (ReturnedCreateOrder(p) /\ ~WithinStock(req[p].order))
        => /\ req[p].err # NoError
           /\ NothingPersisted(p)
           /\ req[p].err # ErrStorage =>
                 req[p].err = IF MissingBefore(req[p].order, FirstExceeding(req[p].order))
                              THEN ErrDataNotFound
                              ELSE ErrInsufficientStock

\* a second line over its stock, after a first line that passed, was refused
C2_Witness ==
    \E p \in Procs :
        /\ ReturnedCreateOrder(p)
        /\ req[p].err = ErrInsufficientStock
        /\ FirstExceeding(req[p].order) = 2
        /\ req[p].order.Products[1].Quantity > 0

\* C3: a draft (products all stored, every lookup answered) with total_paid below
\* the sum of price x quantity fails with InsufficientPayment when every line is
\* within stock, and with InsufficientStock, never InsufficientPayment, when a line
\* is not; InsufficientPayment is returned only once every line passed its check.
C3_StockCheckedBeforePayment ==
    \A p \in Procs :
        ReturnedCreateOrder(p) =>
            LET o == req[p].order
                short == AllProductsExist(o) /\ o.TotalPaid < Due(o)
            IN /\ (short /\ WithinStock(o) /\ req[p].err # ErrStorage)
                     => req[p].err = ErrInsufficientPayment
               /\ (short /\ ~WithinStock(o) /\ req[p].err # ErrStorage)
                     => req[p].err = ErrInsufficientStock
               /\ (short /\ ~WithinStock(o)) => req[p].err # ErrInsufficientPayment
               /\ req[p].err = ErrInsufficientPayment
                     => (AllProductsExist(o) /\ WithinStock(o) /\ o.TotalPaid < Due(o))

\* an underpaid draft whose second line is over its stock was refused for the stock
C3_Witness ==
    \E p \in Procs :
        /\ ReturnedCreateOrder(p)
        /\ AllProductsExist(req[p].order)
        /\ req[p].order.TotalPaid < Due(req[p].order)
        /\ FirstExceeding(req[p].order) = 2
        /\ req[p].order.TotalPaid < LineDue(req[p].order, 1)
        /\ req[p].err = ErrInsufficientStock

\* C4: every persisted order has total_return = total_paid - total_price, and
\* total_return >= 0.
C4_TotalReturn ==
    \A n \in 1..Len(orders) :
        /\ orders[n].TotalReturn = orders[n].TotalPaid - orders[n].TotalPrice
        /\ orders[n].TotalReturn >= 0

\* an order paid above its price has been created and change is due
C4_Witness ==
    \E p \in Procs :
        /\ ReturnedCreateOrder(p)
        /\ req[p].err = NoError
        /\ orders[req[p].order.ID].TotalPrice > 0
        /\ orders[req[p].order.ID].TotalReturn > 0

\* C5: every order CreateOrder created has a User, a Payment and at least one
\* line; no persisted order has an empty line list.
C5_EveryOrderHasALine ==
    /\ \A n \in 1..Len(orders) : Len(orders[n].Products) >= 1
    /\ \A p \in Procs :
          (ReturnedCreateOrder(p) /\ req[p].err = NoError)
          => /\ ~IsNil(req[p].order.User)
             /\ ~IsNil(req[p].order.Payment)
             /\ Len(req[p].order.Products) >= 1

\* C6: no create-order request with a line of quantity <= 0 gets past the
\* validation of the request, so that no persisted line has a quantity <= 0 or a
\* negative line total, and no persisted order a negative total_price.
C6_NoNonPositiveQuantity ==
    \A n \in 1..Len(orders) :
        /\ orders[n].TotalPrice >= 0
        /\ \A k \in 1..Len(orders[n].Products) :
              /\ orders[n].Products[k].Quantity > 0
              /\ orders[n].Products[k].TotalPrice >= 0

(***************************************************************************)
(* Properties of the reads and of the cache (Spec).                        *)
(***************************************************************************)
ReturnedGetOrder(p) ==
    /\ req[p].op = "GetOrder"
    /\ req[p].pc = "done"
    /\ req[p].err # ErrValidation

ReturnedListOrders(p) ==
    /\ req[p].op = "ListOrders"
    /\ req[p].pc = "done"
    /\ req[p].err # ErrValidation

\* User, Payment and every line's Product and its Category are non-nil
Populated(o) ==
    /\ ~IsNil(o.User)
    /\ ~IsNil(o.Payment)
    /\ \A k \in 1..Len(o.Products) :
          /\ ~IsNil(o.Products[k].Product)
          /\ ~IsNil(Deref(o.Products[k].Product).Category)

\* C7: once CreateOrder has returned successfully with id, every later GetOrder(id),
\* whatever CreateOrder, GetOrder and ListOrders calls came between, finds the order
\* and returns it with User and Payment non-nil and, on every line, a non-nil
\* Product with a non-nil Category (a repository or cache call failing aside).
C7_GetOrderIsPopulated ==
    \A p \in Procs :
        (ReturnedGetOrder(p) /\ req[p].id \in created)
        => /\ req[p].err \in {NoError, ErrStorage, ErrCache}
           /\ req[p].err = NoError =>
                 /\ req[p].order.ID = req[p].id
                 /\ Len(req[p].order.Products) = Len(orders[req[p].id].Products)
                 /\ Populated(req[p].order)

\* the second order created, one with a line, has been read back from storage
C7_Witness ==
    \E p \in Procs :
        /\ ReturnedGetOrder(p)
        /\ req[p].err = NoError
        /\ req[p].id \in created
        /\ req[p].id = 2
        /\ ~req[p].hit
        /\ Len(req[p].order.Products) >= 1

OrdersCacheKeys ==
    {OrdersCacheKey(skip, limit) : skip \in 0..(MaxSkip + 1), limit \in 0..(MaxLimit + 1)}

\* an order as the order repository returns it: nothing attached
AsStored(o) ==
    [o EXCEPT !.User = Nil, !.Payment = Nil,
              !.Products = [k \in DOMAIN o.Products |->
                               [o.Products[k] EXCEPT !.Product = Nil]]]

\* C9: when CreateOrder returns successfully no cache entry of the orders-list
\* namespace that existed before the call is left, and the ListOrders that comes
\* next, for any (skip, limit), is not answered from the cache: it returns the page
\* as storage holds it, with the new order when that falls in the page.
C9_CreateOrderInvalidatesLists ==
    \A p \in Procs :
        /\ (ReturnedCreateOrder(p) /\ req[p].err = NoError)
              => (req[p].keysBefore \cap OrdersCacheKeys) \cap DOMAIN cache = {}
        /\ (ReturnedListOrders(p) /\ req[p].err = NoError /\ req[p].after # 0)
              => /\ ~req[p].hit
                 /\ Len(req[p].list) = Len(OrdersPage(req[p].skip, req[p].limit))
                 /\ \A n \in 1..Len(req[p].list) :
                       AsStored(req[p].list[n]) = OrdersPage(req[p].skip, req[p].limit)[n]
                 /\ (req[p].skip < req[p].after /\ req[p].after <= req[p].skip + req[p].limit)
                       => \E n \in 1..Len(req[p].list) : req[p].list[n].ID = req[p].after

\* a CreateOrder has returned successfully that found two pages cached
C9_Witness ==
    \E p \in Procs :
        /\ ReturnedCreateOrder(p)
        /\ req[p].err = NoError
        /\ Cardinality(req[p].keysBefore \cap OrdersCacheKeys) >= 2
        /\ Len(orders) = 2

\* C10: distinct (skip, limit) pairs have distinct cache keys, and a ListOrders
\* answered from the cache returns the page a ListOrders with the same (skip, limit)
\* cached, never that of another pair.
C10_PagesCacheApart ==
    /\ \A s1, s2 \in 0..MaxSkip, l1, l2 \in MinLimit..MaxLimit :
          <<s1, l1>> # <<s2, l2>> => OrdersCacheKey(s1, l1) # OrdersCacheKey(s2, l2)
    /\ \A p \in Procs :
          (ReturnedListOrders(p) /\ req[p].hit)
          => /\ OrdersCacheKey(req[p].skip, req[p].limit) \in DOMAIN cachedFrom
             /\ cachedFrom[OrdersCacheKey(req[p].skip, req[p].limit)].by
                   = <<req[p].skip, req[p].limit>>
             /\ req[p].list = cachedFrom[OrdersCacheKey(req[p].skip, req[p].limit)].value

\* a page has been answered from the cache while another pair's page, a different
\* one, was cached too
C10_Witness ==
    \E p \in Procs :
        /\ ReturnedListOrders(p)
        /\ req[p].hit
        /\ \E s \in 0..MaxSkip, l \in MinLimit..MaxLimit :
              /\ <<s, l>> # <<req[p].skip, req[p].limit>>
              /\ OrdersCacheKey(s, l) \in DOMAIN cache
              /\ cachedFrom[OrdersCacheKey(s, l)].value # req[p].list

(***************************************************************************)
(* What CreateOrder leaves alone and what it leaves behind (SpecCreate).   *)
(***************************************************************************)
\* C11: no step of CreateOrder, in a call that succeeds or in one that fails,
\* changes a stored product: the stock, like every other field, is read and never
\* written.
C11_ProductsUnchanged == [][products' = products]_vars

\* an order for two units of a product in stock has been created, and the stock is
\* what it was
C11_Witness ==
    \E p \in Procs :
        /\ ReturnedCreateOrder(p)
        /\ req[p].err = NoError
        /\ Len(req[p].order.Products) >= 1
        /\ req[p].order.Products[1].Quantity = 2
        /\ ~IsNil(LineProduct(req[p].order, 1))
        /\ Deref(LineProduct(req[p].order, 1)).Stock = 2

(***************************************************************************)
(* CreateOrder calls in flight together (SpecConcurrent).                  *)
(***************************************************************************)
\* C12: the stock check of a CreateOrder compares the call's own quantity with the
\* stored stock and nothing else: every stored line is within the stock of its
\* product, and a call whose line is within stock and paid for succeeds whatever
\* the calls in flight with it have ordered.  So two calls for one product, each
\* within its stock, both succeed also when together they exceed it.
C12_EachCallCheckedAlone ==
    /\ \A n \in 1..Len(orders) : WithinStock(orders[n])
    /\ \A p \in Procs :
          (/\ ReturnedCreateOrder(p)
           /\ AllProductsExist(req[p].order)
           /\ WithinStock(req[p].order)
           /\ req[p].order.TotalPaid >= Due(req[p].order)
           /\ UserAndPaymentExist(req[p].order)
           /\ NoFailure(p))
          => /\ req[p].err = NoError
             /\ req[p].order.ID \in 1..Len(orders)
             /\ orders[req[p].order.ID].Products[1].Quantity
                   = req[p].order.Products[1].Quantity

\* two calls in flight together, accepted before any order was stored, for the same
\* product, each within its stock and together above it, have both succeeded and
\* both orders are stored
C12_Witness ==
    /\ \A p \in {1, 2} :
          /\ ReturnedCreateOrder(p)
          /\ req[p].err = NoError
          /\ req[p].ordersBefore = 0
          /\ req[p].order.ID \in 1..Len(orders)
    /\ req[1].order.ID # req[2].order.ID
    /\ req[1].order.Products[1].ProductID = req[2].order.Products[1].ProductID
    /\ LET stock == Deref(LineProduct(req[1].order, 1)).Stock
           q1 == orders[req[1].order.ID].Products[1].Quantity
           q2 == orders[req[2].order.ID].Products[1].Quantity
       IN q1 <= stock /\ q2 <= stock /\ q1 + q2 > stock

(***************************************************************************)
(* Orders read after a price has changed (SpecPrice).                      *)
(***************************************************************************)
\* the unit price in the body of a line is the one its line total was computed
\* from when the order was created
PricedAsCreated(order) ==
    \A k \in 1..Len(order.Products) :
        LET line == NewOrderProductResponse(order.Products)[k]
        IN line.Price * line.Quantity = line.TotalNormalPrice

\* C13: whatever prices were changed since an order was created, GetOrder and
\* ListOrders report every line of it with the unit price and the line total of
\* the time it was created (line total = that unit price x quantity), from the
\* cache and from storage alike.
C13_PriceOfCreationTime ==
    \A p \in Procs :
        /\ (ReturnedGetOrder(p) /\ req[p].err = NoError) => PricedAsCreated(req[p].order)
        /\ (ReturnedListOrders(p) /\ req[p].err = NoError)
              => \A n \in 1..Len(req[p].list) : PricedAsCreated(req[p].list[n])

(***************************************************************************)
(* CreateOrder failing after the order is stored.                          *)
(***************************************************************************)
\* the order the call of worker p stored is in storage, with the lines the call
\* gave it
PersistedByCall(p) ==
    LET o == req[p].order
    IN /\ o.ID \in 1..Len(orders)
       /\ o.ID > req[p].ordersBefore
       /\ AsStored(orders[o.ID]) = AsStored(o)

\* C14: when the "orders:*" invalidation, or the serialization and Set of the
\* order's own key, fails in a CreateOrder (the order is stored by then), the call
\* returns an error and the order and its lines are still in storage.
C14_CacheFailureKeepsTheOrder ==
    \A p \in Procs :
        (req[p].op = "CreateOrder" /\ calls[p].failedCall \in {"invalidate", "set"})
        => /\ ReturnedCreateOrder(p)
           /\ req[p].err # NoError
           /\ PersistedByCall(p)

\* a CreateOrder of two lines has returned the error of its failed cache Set
C14_Witness ==
    \E p \in Procs :
        /\ req[p].op = "CreateOrder"
        /\ calls[p].failedCall = "set"
        /\ req[p].pc = "done"
        /\ req[p].err = ErrCache
        /\ Len(req[p].order.Products) = 2
        /\ Len(orders[req[p].order.ID].Products) = 2

\* C15: when the user lookup or the payment lookup CreateOrder makes after storing
\* the order fails, the call returns the error of that lookup, the order is stored,
\* and no call follows: no cache key is removed ("orders:*" entries stay) and the
\* order's own key is not written.
C15_LookupFailureAfterPersist ==
    \A p \in Procs :
        (req[p].op = "CreateOrder" /\ calls[p].failedCall \in {"user", "payment"})
        => /\ ReturnedCreateOrder(p)
           /\ req[p].err = calls[p].failedErr
           /\ req[p].err # NoError
           /\ PersistedByCall(p)
           /\ calls[p].afterFailure = 0
           /\ DOMAIN cache = req[p].keysBefore
           /\ OrderCacheKey(req[p].order.ID) \notin DOMAIN cache

\* a CreateOrder whose payment lookup failed has returned, with a page of the
\* orders list in the cache
C15_Witness ==
    \E p \in Procs :
        /\ req[p].op = "CreateOrder"
        /\ calls[p].failedCall = "payment"
        /\ req[p].pc = "done"
        /\ req[p].order.ID = Len(orders)
        /\ req[p].keysBefore \cap OrdersCacheKeys # {}

(***************************************************************************)
(* Reads after a CreateOrder that stored its order and then failed.        *)
(***************************************************************************)
\* every call the GetOrder of worker p made went through, and it returned the
\* order of its id as storage holds it
ReadsStoredOrder(p) ==
    /\ req[p].err = NoError
    /\ AsStored(req[p].order) = orders[req[p].id]

\* the ListOrders of worker p returned the page as storage holds it
ReadsStoredPage(p) ==
    /\ Len(req[p].list) = Len(OrdersPage(req[p].skip, req[p].limit))
    /\ \A n \in 1..Len(req[p].list) :
          AsStored(req[p].list[n]) = OrdersPage(req[p].skip, req[p].limit)[n]

\* C16: whatever CreateOrder calls failed after storing their order, a later
\* GetOrder(id) of a stored order, no call of it failing, returns the order as
\* stored, and a later ListOrders that succeeds returns its page as storage holds
\* it, every stored order of the page included.
C16_ReadsSelfHeal ==
    \A p \in Procs :
        /\ (ReturnedGetOrder(p) /\ req[p].id \in 1..Len(orders)
               /\ calls[p].failedCall = "none")
              => ReadsStoredOrder(p)
        /\ (ReturnedListOrders(p) /\ req[p].err = NoError) => ReadsStoredPage(p)

(***************************************************************************)
(* The errors the order service returns.                                   *)
(***************************************************************************)
\* the sentinels of cmdomain the spec names as the kinds of error of the service
TypedErrors == {ErrInsufficientStock, ErrInsufficientPayment, ErrDataNotFound, ErrInternal}

\* C17: the error CreateOrder, GetOrder or ListOrders returns is one of
\* InsufficientStock, InsufficientPayment, NotFound and Internal: a failure of a
\* repository that is not a not-found, of the cache or of the serialization comes
\* back as Internal.
C17_ErrorsAreTyped ==
    \A p \in Procs :
        (ReturnedCreateOrder(p) \/ ReturnedGetOrder(p) \/ ReturnedListOrders(p))
        => req[p].err \in TypedErrors \cup {NoError}

RECURSIVE LinesUpTo(_, _)
LinesUpTo(list, n) ==
    IF n = 0 THEN 0 ELSE LinesUpTo(list, n - 1) + Len(list[n].Products)

\* the most calls request r makes: CreateOrder one check and two lookups a line and
\* five more; GetOrder two lookups a line and five more; ListOrders two lookups an
\* order, two a line, and three more
CallBound(r) ==
    CASE r.op = "CreateOrder" -> 3 * Len(r.order.Products) + 5
      [] r.op = "GetOrder" -> 2 * Len(r.order.Products) + 5
      [] r.op = "ListOrders" -> 2 * Len(r.list) + 2 * LinesUpTo(r.list, Len(r.list)) + 3
      [] OTHER -> 0

Reading(p) ==
    /\ req[p].op \in {"GetOrder", "ListOrders"}
    /\ req[p].pc \notin {"idle", "done"}

\* a GetOrder of an id with no row and no entry has returned the not-found of the
\* fetch, its second call, or the error of a failed fetch
NotFoundReturned(p) ==
    /\ req[p].err \in {ErrDataNotFound, ErrStorage}
    /\ req[p].err = calls[p].failedErr
    /\ calls[p].failedCall = "fetch"
    /\ calls[p].made = 2

\* C22: a GetOrder of an id that has neither an entry nor a row returns NotFound (a
\* failing fetch aside) and the cache holds what it held; and no step of a GetOrder
\* or ListOrders changes storage, nor the cache unless it is the step the request
\* returns successfully with: a read that returns an error has changed nothing.
C22_FailedReadChangesNothing ==
    /\ [](\A p \in Procs :
             (ReturnedGetOrder(p) /\ req[p].id \notin 1..Len(orders)
                 /\ OrderCacheKey(req[p].id) \notin req[p].keysBefore)
             => NotFoundReturned(p) /\ DOMAIN cache = req[p].keysBefore)
    /\ [][\A p \in Procs :
             Reading(p)
             => /\ UNCHANGED <<products, categories, users, payments, orders>>
                /\ cache' # cache => req'[p].pc = "done" /\ req'[p].err = NoError]_vars

\* a GetOrder of an id with no row has returned NotFound while another order is in
\* the cache
C22_Witness ==
    \E p \in Procs :
        /\ ReturnedGetOrder(p)
        /\ req[p].id \notin 1..Len(orders)
        /\ req[p].err = ErrDataNotFound
        /\ calls[p].made = 2
        /\ req[p].keysBefore # {}
        /\ DOMAIN cache = req[p].keysBefore

(***************************************************************************)
(* The cache after a mutation of an entity (SpecProduct).                  *)
(***************************************************************************)
\* C23: when a mutation of an entity returns successfully its single-entity key
\* holds the new value or, after a delete, no entry, and no entry of the entity's
\* collection namespace found by the call is left, also when the cache Delete of
\* the key failed inside the call; here for DeleteProduct.
C23_DeletedProductNotCached ==
    \A p \in Procs :
        (req[p].op = "DeleteProduct" /\ req[p].pc = "done" /\ req[p].err = NoError)
        => /\ IsNil(Row(products, req[p].id))
           /\ ProductCacheKey(req[p].id) \notin DOMAIN cache
           /\ \A key \in req[p].keysBefore :
                 MatchesPattern(ProductsPattern, key) => key \notin DOMAIN cache

(***************************************************************************)
(* The errors the category and product services return.                    *)
(***************************************************************************)
\* the sentinels of cmdomain the spec names as the taxonomy of these services
ClassifiedErrors == {ErrDataNotFound, ErrConflictingData, ErrNoUpdatedData, ErrInternal}

\* C24: the error an operation of the Category, Payment, User or Product service
\* returns is NotFound, ConflictingData, NoUpdatedData or Internal: a failure of
\* storage that is neither a not-found nor a conflict comes back as Internal; here
\* for GetCategory, GetProduct and DeleteProduct.
C24_ErrorsAreClassified ==
    \A p \in Procs :
        (req[p].op \in {"GetCategory", "GetProduct", "DeleteProduct"} /\ req[p].pc = "done")
        => req[p].err \in ClassifiedErrors \cup {NoError}

(***************************************************************************)
(* The HTTP boundary: the error statuses, the token, the two middlewares    *)
(* and the routes of NewRouter (SpecRouter).                                *)
(***************************************************************************)
ErrInvalidCredentials == "ErrInvalidCredentials"
ErrUnauthorized == "ErrUnauthorized"
ErrEmptyAuthorizationHeader == "ErrEmptyAuthorizationHeader"
ErrInvalidAuthorizationHeader == "ErrInvalidAuthorizationHeader"
ErrInvalidAuthorizationType == "ErrInvalidAuthorizationType"
ErrInvalidToken == "ErrInvalidToken"
ErrExpiredToken == "ErrExpiredToken"
ErrForbidden == "ErrForbidden"

\* errorStatusMap: the sentinel errors and their http status codes
errorStatusMap ==
    (ErrInternal :> 500) @@ (ErrDataNotFound :> 404) @@ (ErrConflictingData :> 409)
    @@ (ErrInvalidCredentials :> 401) @@ (ErrUnauthorized :> 401)
    @@ (ErrEmptyAuthorizationHeader :> 401) @@ (ErrInvalidAuthorizationHeader :> 401)
    @@ (ErrInvalidAuthorizationType :> 401) @@ (ErrInvalidToken :> 401)
    @@ (ErrExpiredToken :> 401) @@ (ErrForbidden :> 403) @@ (ErrNoUpdatedData :> 400)
    @@ (ErrInsufficientStock :> 400) @@ (ErrInsufficientPayment :> 400)

\* every error answered with 500, as HandleError would be without its map
StatusInternalOnly(err) == 500

\* the status code HandleError and HandleAbort answer err with: the map's, and 500
\* for an error the map does not hold
StatusOf(err) ==
    IF err \in DOMAIN errorStatusMap THEN errorStatusMap[err] ELSE 500

\* HandleError: the response is written, the chain is left as it is
HandleError(c, err) == [c EXCEPT !.status = StatusOf(err)]

\* HandleAbort: the response is written and no later handler of the chain runs
HandleAbort(c, err) == [c EXCEPT !.status = StatusOf(err), !.aborted = TRUE]

\* HandleSuccess
HandleSuccess(c) == [c EXCEPT !.status = 200]

\* ValidationError
ValidationError(c) == [c EXCEPT !.status = 400]

Admin == "admin"
Cashier == "cashier"

\* the latest instant of the clock and of a token's expiry
MaxTime == 1

\* the key the server's Token holds, and another one
SymmetricKey == "key"
OtherKey == "other key"

\* access tokens a request may carry: payloads encrypted under the server's key
\* or under another key (a string that is no token decrypts no better than these)
TokenPayloads == [UserID : {1}, Role : {Admin, Cashier}, ExpiredAt : 0..MaxTime]
AccessTokens == [key : {SymmetricKey, OtherKey}, payload : TokenPayloads]

\* paseto's Decrypt: an error unless the token was encrypted under the key
Decrypt(token, key) ==
    IF token \in [key : {key}, payload : TokenPayloads]
    THEN <<Ptr(token.payload), NoError>>
    ELSE <<Nil, ErrInvalidToken>>

\* a verification that never looks at the expiry
VerifyTokenUnexpiring(token, now) == Decrypt(token, SymmetricKey)

\* Token.VerifyToken at the instant now
VerifyToken(token, now) ==
    LET got == Decrypt(token, SymmetricKey)
    IN IF got[2] # NoError THEN <<Nil, ErrInvalidToken>>
       ELSE IF now > Deref(got[1]).ExpiredAt THEN <<Nil, ErrExpiredToken>>
       ELSE got

\* strings.ToLower on the authorization types requests carry
ToLowerUnchanged(s) == s
ToLower(s) ==
    CASE s = "Bearer" -> "bearer"
      [] s = "BEARER" -> "bearer"
      [] s = "Basic" -> "basic"
      [] OTHER -> s

AuthorizationType == "bearer"

\* the authorization header of a request: whether the string is empty, and the
\* fields strings.Fields splits it into (none for a string of spaces)
Headers ==
    {[empty |-> TRUE, fields |-> <<>>], [empty |-> FALSE, fields |-> <<>>],
     [empty |-> FALSE, fields |-> <<"Bearer">>], [empty |-> FALSE, fields |-> <<"Basic">>]}
    \cup {[empty |-> FALSE, fields |-> <<type, token>>] :
             type \in {"Bearer", "bearer", "BEARER", "Basic"}, token \in AccessTokens}
    \cup {[empty |-> FALSE, fields |-> <<"Bearer", token, "more">>] : token \in AccessTokens}

\* NewRouter's statements on the groups under /v1, in program order. A group
\* variable assigned from Use names the group Use was called on (authUser and
\* admin of users are one group, as are payment and its admin, and so on).
\* The logging, recovery and CORS middleware of the engine head every chain
\* alike and are left out.
Group(g, parent) == [stmt |-> "Group", group |-> g, parent |-> parent]
Use(g, middleware) == [stmt |-> "Use", group |-> g, middleware |-> middleware]
Handle(g, route, handler) == [stmt |-> "Handle", group |-> g, route |-> route, handler |-> handler]

RouterProgram ==
    << Group("user", "v1"),
       Handle("user", "POST /v1/users/", "Register"),
       Handle("user", "POST /v1/users/login", "Login"),
       Group("authUser", "user"),
       Use("authUser", "authMiddleware"),
       Handle("authUser", "GET /v1/users/", "ListUsers"),
       Handle("authUser", "GET /v1/users/:id", "GetUser"),
       Use("authUser", "adminMiddleware"),
       Handle("authUser", "PUT /v1/users/:id", "UpdateUser"),
       Handle("authUser", "DELETE /v1/users/:id", "DeleteUser"),
       Group("payment", "v1"),
       Use("payment", "authMiddleware"),
       Handle("payment", "GET /v1/payments/", "ListPayments"),
       Handle("payment", "GET /v1/payments/:id", "GetPayment"),
       Use("payment", "adminMiddleware"),
       Handle("payment", "POST /v1/payments/", "CreatePayment"),
       Handle("payment", "PUT /v1/payments/:id", "UpdatePayment"),
       Handle("payment", "DELETE /v1/payments/:id", "DeletePayment"),
       Group("category", "v1"),
       Use("category", "authMiddleware"),
       Handle("category", "GET /v1/categories/", "ListCategories"),
       Handle("category", "GET /v1/categories/:id", "GetCategory"),
       Use("category", "adminMiddleware"),
       Handle("category", "POST /v1/categories/", "CreateCategory"),
       Handle("category", "PUT /v1/categories/:id", "UpdateCategory"),
       Handle("category", "DELETE /v1/categories/:id", "DeleteCategory"),
       Group("product", "v1"),
       Use("product", "authMiddleware"),
       Handle("product", "GET /v1/products/", "ListProducts"),
       Handle("product", "GET /v1/products/:id", "GetProduct"),
       Use("product", "adminMiddleware"),
       Handle("product", "POST /v1/products/", "CreateProduct"),
       Handle("product", "PUT /v1/products/:id", "UpdateProduct"),
       Handle("product", "DELETE /v1/products/:id", "DeleteProduct"),
       Group("order", "v1"),
       Use("order", "authMiddleware"),
       Handle("order", "POST /v1/orders/", "CreateOrder"),
       Handle("order", "GET /v1/orders/", "ListOrders"),
       Handle("order", "GET /v1/orders/:id", "GetOrder") >>

\* a Use that also reaches the routes its group has registered already
UseOnRegistered(rt, s) ==
    [groups |-> [rt.groups EXCEPT ![s.group] = Append(@, s.middleware)],
     routes |-> [r \in DOMAIN rt.routes |->
                    IF rt.owner[r] = s.group
                    THEN SubSeq(rt.routes[r], 1, Len(rt.routes[r]) - 1)
                         \o <<s.middleware, rt.routes[r][Len(rt.routes[r])]>>
                    ELSE rt.routes[r]],
     owner |-> rt.owner]

\* Use on a group: the middleware is appended to the group's handlers; the chains
\* of the routes registered before keep the handlers they were given
UseMiddleware(rt, s) == [rt EXCEPT !.groups[s.group] = Append(@, s.middleware)]

\* one statement on the router rt. Group: the new group starts with a copy of its
\* parent's handlers; Handle: the route's chain is the group's handlers as they
\* are now, then the handler.
Execute(rt, s) ==
    CASE s.stmt = "Group" ->
            [rt EXCEPT !.groups = (s.group :> rt.groups[s.parent]) @@ rt.groups]
      [] s.stmt = "Use" -> UseMiddleware(rt, s)
      [] OTHER ->
            [rt EXCEPT !.routes = (s.route :> Append(rt.groups[s.group], s.handler)) @@ @,
                       !.owner = (s.route :> s.group) @@ @]

RECURSIVE Executed(_)
Executed(n) ==
    IF n = 0
    THEN [groups |-> ("v1" :> <<>>), routes |-> <<>>, owner |-> <<>>]
    ELSE Execute(Executed(n - 1), RouterProgram[n])

\* NewRouter: route -> its handler chain
NewRouter == Executed(Len(RouterProgram)).routes

Middlewares == {"authMiddleware", "adminMiddleware"}

\* errors a service hands its handler, besides nil
ServiceErrors ==
    {ErrDataNotFound, ErrConflictingData, ErrInsufficientStock, ErrInsufficientPayment,
     ErrNoUpdatedData, ErrInternal, ErrStorage}

\* the handler the chain of request p is at
AtHandler(p) ==
    IF req[p].pc = "chain" THEN req[p].ctx.handlers[req[p].ctx.index] ELSE "none"

\* the response is written: the request is over
Written(r, c, err) == [Return(r, err) EXCEPT !.ctx = c]

\* gin hands a request for a registered route to the first handler of its chain
ServeHTTP(p) ==
    /\ CanAccept(p)
    /\ \E route \in DOMAIN NewRouter, header \in Headers, now \in 0..MaxTime :
          req' = [req EXCEPT ![p] =
                     [NewReq(route) EXCEPT
                         !.pc = "chain",
                         !.ctx = [NoContext EXCEPT !.route = route,
                                                   !.handlers = NewRouter[route],
                                                   !.index = 1,
                                                   !.header = Ptr(header),
                                                   !.now = now]]]
    /\ UNCHANGED <<products, categories, users, payments, orders, cache, cachedFrom,
                   created, lastCreated, env, calls>>

AuthMiddleware(p) ==
    /\ AtHandler(p) = "authMiddleware"
    /\ LET r == req[p]
           c == r.ctx
           authorizationHeader == Deref(c.header)
           fields == authorizationHeader.fields
           verified == VerifyToken(fields[2], c.now)
       IN req' = [req EXCEPT ![p] =
                     IF authorizationHeader.empty
                     THEN Written(r, HandleAbort(c, ErrEmptyAuthorizationHeader),
                                  ErrEmptyAuthorizationHeader)
                     ELSE IF Len(fields) # 2
                     THEN Written(r, HandleAbort(c, ErrInvalidAuthorizationHeader),
                                  ErrInvalidAuthorizationHeader)
                     ELSE IF ToLower(fields[1]) # AuthorizationType
                     THEN Written(r, HandleAbort(c, ErrInvalidAuthorizationType),
                                  ErrInvalidAuthorizationType)
                     ELSE IF verified[2] # NoError
                     THEN Written(r, HandleAbort(c, verified[2]), verified[2])
                     ELSE [r EXCEPT !.ctx.payload = verified[1], !.ctx.index = @ + 1]]
    /\ UNCHANGED <<products, categories, users, payments, orders, cache, cachedFrom,
                   created, lastCreated, env, calls>>

AdminMiddleware(p) ==
    /\ AtHandler(p) = "adminMiddleware"
    /\ LET r == req[p]
           c == r.ctx
           payload == Deref(c.payload)
       IN req' = [req EXCEPT ![p] =
                     IF payload.Role # Admin
                     THEN Written(r, HandleAbort(c, ErrForbidden), ErrForbidden)
                     ELSE [r EXCEPT !.ctx.index = @ + 1]]
    /\ UNCHANGED <<products, categories, users, payments, orders, cache, cachedFrom,
                   created, lastCreated, env, calls>>

\* the route's handler: it rejects the request as invalid, or calls its service
\* and answers with the error's status or with success
Handler(p) ==
    /\ req[p].pc = "chain"
    /\ AtHandler(p) \notin Middlewares
    /\ LET r == req[p]
           c == [r.ctx EXCEPT !.ran = TRUE]
       IN \E err \in ServiceErrors \cup {NoError, ErrValidation} :
             req' = [req EXCEPT ![p] =
                        CASE err = NoError -> Written(r, HandleSuccess(c), err)
                          [] err = ErrValidation -> Written(r, ValidationError(c), err)
                          [] OTHER -> Written(r, HandleError(c, err), err)]
    /\ UNCHANGED <<products, categories, users, payments, orders, cache, cachedFrom,
                   created, lastCreated, env, calls>>

NextRouter ==
    \E p \in Procs :
        \/ OneAtATime(p) /\ ServeHTTP(p)
        \/ AuthMiddleware(p)
        \/ AdminMiddleware(p)
        \/ Handler(p)
        \/ Respond(p)

SpecRouter == Init /\ [][NextRouter]_vars

(***************************************************************************)
(* The statuses of the error taxonomy (SpecRouter).                        *)
(***************************************************************************)
\* the six error kinds of the taxonomy
TaxonomyErrors ==
    {ErrDataNotFound, ErrConflictingData, ErrInsufficientStock, ErrInsufficientPayment,
     ErrNoUpdatedData, ErrInternal}

\* the three kinds answered alike, as a bad request
BadRequestErrors == {ErrInsufficientStock, ErrInsufficientPayment, ErrNoUpdatedData}

\* a handler of request p has answered the error it was handed
Answered(p) == req[p].pc = "done" /\ req[p].ctx.ran

\* C25: each of the six kinds of the error taxonomy (NotFound, ConflictingData,
\* InsufficientStock, InsufficientPayment, NoUpdatedData, Internal) gets a status
\* of its own: the status a handler answers one of them with is the status of no
\* other of the six.
C25_StatusesAreDistinct ==
    \A p \in Procs :
        (Answered(p) /\ req[p].err \in TaxonomyErrors)
        => \A other \in TaxonomyErrors \ {req[p].err} :
              StatusOf(other) # req[p].ctx.status

\* C25, as the code has it: NotFound is answered 404, ConflictingData 409, Internal
\* 500, and InsufficientStock, InsufficientPayment and NoUpdatedData all 400; so
\* two different kinds share a status exactly when both are among those three.
C25_StatusesDistinctButBadRequests ==
    \A p \in Procs :
        (Answered(p) /\ req[p].err \in TaxonomyErrors)
        => /\ req[p].ctx.status =
                 CASE req[p].err = ErrDataNotFound -> 404
                   [] req[p].err = ErrConflictingData -> 409
                   [] req[p].err = ErrInternal -> 500
                   [] OTHER -> 400
           /\ \A other \in TaxonomyErrors \ {req[p].err} :
                 StatusOf(other) = req[p].ctx.status
                 <=> {other, req[p].err} \subseteq BadRequestErrors

C25_Witness ==
    \E p \in Procs :
        /\ Answered(p)
        /\ req[p].err = ErrInsufficientStock
        /\ req[p].ctx.status = StatusOf(ErrInsufficientPayment)

(***************************************************************************)
(* Authentication before the handlers (SpecRouter).                        *)
(***************************************************************************)
\* every route of the orders, payments, categories and products groups, and the
\* user routes but register and login
ProtectedRoutes == DOMAIN NewRouter \ {"POST /v1/users/", "POST /v1/users/login"}

\* the request of context c carries a type and a token, the token decrypts under
\* the server's key and has not expired at the instant of the request
TokenVerified(c) ==
    LET fields == Deref(c.header).fields
    IN /\ Len(fields) = 2
       /\ fields[2].key = SymmetricKey
       /\ ~(c.now > fields[2].payload.ExpiredAt)

\* the payload of the request's token is what the context holds
PayloadStored(c) == c.payload = Ptr(Deref(c.header).fields[2].payload)

\* C26: on every route of the orders, payments, categories and products groups and
\* every user route but register and login, the handler is reached, and has run,
\* only for a request whose bearer token authMiddleware has verified as decryptable
\* and not expired, with the token's payload stored in the context; a request
\* that is rejected is aborted and its handler has not run.
C26_HandlerOnlyAfterAuth ==
    \A p \in Procs :
        LET c == req[p].ctx
        IN c.route \in ProtectedRoutes
           => /\ (c.ran \/ AtHandler(p) \notin Middlewares \cup {"none"})
                 => TokenVerified(c) /\ PayloadStored(c)
              /\ (req[p].pc = "done" /\ ~TokenVerified(c)) => c.aborted
              /\ c.aborted => ~c.ran /\ req[p].pc = "done"

C26_Witness ==
    \E p \in Procs :
        LET c == req[p].ctx
        IN /\ c.route \in ProtectedRoutes
           /\ c.ran
           /\ Deref(c.header).fields[2].payload.ExpiredAt = c.now
           /\ c.now > 0

(***************************************************************************)
(* The authorization matrix of the router (SpecRouter).                    *)
(***************************************************************************)
\* create, update and delete of payments, categories and products; update and
\* delete of users
AdminRoutes ==
    {"POST /v1/payments/", "PUT /v1/payments/:id", "DELETE /v1/payments/:id",
     "POST /v1/categories/", "PUT /v1/categories/:id", "DELETE /v1/categories/:id",
     "POST /v1/products/", "PUT /v1/products/:id", "DELETE /v1/products/:id",
     "PUT /v1/users/:id", "DELETE /v1/users/:id"}

\* list and get of users, payments, categories and products; the order routes
\* (the claim names the list and get handlers of the groups whose mutations are
\* restricted, users among them)
AnyRoleRoutes ==
    {"GET /v1/users/", "GET /v1/users/:id", "GET /v1/payments/", "GET /v1/payments/:id",
     "GET /v1/categories/", "GET /v1/categories/:id", "GET /v1/products/",
     "GET /v1/products/:id", "POST /v1/orders/", "GET /v1/orders/", "GET /v1/orders/:id"}

\* C27: the create, update and delete handlers of payments, categories and
\* products and the update and delete handlers of users are reached, and have run,
\* only when the verified token's role is admin, and a request with a verified
\* token of another role is aborted with Forbidden; the list and get handlers of
\* those groups and the three order handlers run for a verified token of any
\* role.
C27_AuthorizationMatrix ==
    \A p \in Procs :
        LET c == req[p].ctx
            role == Deref(c.payload).Role
        IN /\ c.route \in AdminRoutes
              => /\ (c.ran \/ AtHandler(p) \notin Middlewares \cup {"none"})
                    => ~IsNil(c.payload) /\ role = Admin
                 /\ (req[p].pc = "done" /\ ~IsNil(c.payload))
                    => IF role = Admin
                       THEN c.ran /\ ~c.aborted
                       ELSE /\ c.aborted /\ ~c.ran
                            /\ req[p].err = ErrForbidden /\ c.status = 403
           /\ c.route \in AnyRoleRoutes
              => ((req[p].pc = "done" /\ ~IsNil(c.payload)) => (c.ran /\ ~c.aborted))

C27_Witness ==
    \E p \in Procs :
        LET c == req[p].ctx
        IN /\ c.route = "GET /v1/products/:id"
           /\ c.ran
           /\ Deref(c.payload).Role = Cashier

(***************************************************************************)
(* Orders after their creation (SpecPrice).                                *)
(***************************************************************************)
\* C28: orders are immutable once created: in every step of every exposed
\* operation (the three order routes, and an update of a product an order names)
\* the orders in storage are those there were, each with the lines, total_price,
\* total_paid and total_return it had, and possibly one more.
C28_OrdersImmutable ==
    [][/\ Len(orders') >= Len(orders)
       /\ \A id \in 1..Len(orders) :
             /\ orders'[id].Products = orders[id].Products
             /\ orders'[id].TotalPrice = orders[id].TotalPrice
             /\ orders'[id].TotalPaid = orders[id].TotalPaid
             /\ orders'[id].TotalReturn = orders[id].TotalReturn
             /\ orders'[id] = orders[id]]_vars

\* a second order is in storage, and the product the first one names has a new
\* price since
C28_Witness ==
    /\ Len(orders) = MaxOrders
    /\ \E k \in 1..Len(orders[1].Products) :
          LET line == orders[1].Products[k]
              row == Row(products, line.ProductID)
          IN ~IsNil(row) /\ Deref(row).Price * line.Quantity # line.TotalPrice

(***************************************************************************)
(* Listing products: uint64 arithmetic and ProductService.ListProducts      *)
(* (SpecList). A uint64 is kept as its bytes, least significant first, so   *)
(* that the arithmetic has the width it has in the program.                *)
(***************************************************************************)
Uint64Bytes == 8

RECURSIVE BytesOf(_, _)
\* the n low bytes of the number v
BytesOf(v, n) == IF n = 0 THEN <<>> ELSE <<v % 256>> \o BytesOf(v \div 256, n - 1)

Uint64(v) == BytesOf(v, Uint64Bytes)

IsZero(bytes) == \A i \in DOMAIN bytes : bytes[i] = 0

RECURSIVE Carried(_, _, _)
\* the column sums with the carries propagated, to n bytes; what is carried out
\* of the n-th byte is dropped
Carried(sums, carry, n) ==
    IF n = 0 THEN <<>>
    ELSE LET s == (IF sums = <<>> THEN 0 ELSE Head(sums)) + carry
         IN <<s % 256>> \o Carried(IF sums = <<>> THEN <<>> ELSE Tail(sums), s \div 256, n - 1)

\* a - b on naturals: 0 when b is the larger
SaturatingSub(a, b) ==
    LET diff == Carried([i \in 1..Uint64Bytes |-> a[i] + (255 - b[i])], 1, Uint64Bytes + 1)
    IN IF diff[Uint64Bytes + 1] = 0 THEN Uint64(0) ELSE SubSeq(diff, 1, Uint64Bytes)

\* a - b in uint64: a + (2^64 - b), modulo 2^64
SubUint64(a, b) ==
    Carried([i \in 1..Uint64Bytes |-> a[i] + (255 - b[i])], 1, Uint64Bytes)

RECURSIVE Column(_, _, _, _)
\* the sum of the a[j] * b[k + 1 - j], j up to i
Column(a, b, k, i) ==
    IF i = 0 THEN 0
    ELSE (IF (k + 1 - i) \in 1..Len(b) THEN a[i] * b[k + 1 - i] ELSE 0) + Column(a, b, k, i - 1)

\* a * b as a natural number, in the bytes of both
MulNat(a, b) ==
    Carried([k \in 1..(Len(a) + Len(b)) |-> Column(a, b, k, Len(a))], 0, Len(a) + Len(b))

\* a * b in uint64: the low 8 bytes of the product
MulUint64(a, b) == SubSeq(MulNat(a, b), 1, Uint64Bytes)

RECURSIVE Rem10(_, _)
\* the remainder by 10 of the number in bytes i and above
Rem10(bytes, i) ==
    IF i > Len(bytes) THEN 0 ELSE (Rem10(bytes, i + 1) * 256 + bytes[i]) % 10

RECURSIVE Quot10From(_, _)
\* bytes i and above of the quotient by 10
Quot10From(bytes, i) ==
    IF i > Len(bytes) THEN <<>>
    ELSE <<(Rem10(bytes, i + 1) * 256 + bytes[i]) \div 10>> \o Quot10From(bytes, i + 1)

Quot10(bytes) == Quot10From(bytes, 1)

RECURSIVE Decimal64(_)
\* the decimal digits of a uint64
Decimal64(bytes) ==
    IF IsZero(Quot10(bytes)) THEN <<DigitChars[Rem10(bytes, 1) + 1]>>
    ELSE Decimal64(Quot10(bytes)) \o <<DigitChars[Rem10(bytes, 1) + 1]>>

\* a uint64 below 2^24 as a number
IsSmall(bytes) == \A i \in 4..Uint64Bytes : bytes[i] = 0
Small(bytes) == bytes[1] + 256 * bytes[2] + 65536 * bytes[3]

\* 2^62 + 1
LargeSkip == <<1, 0, 0, 0, 0, 0, 0, 64>>

\* skip, limit and categoryId of the ListProducts calls: pages 0, 1, 2 and a page
\* far out, of one and of five products, of all categories; and the first page of
\* category 1
ListProductsParams ==
    {<<skip, Uint64(limit), 0>> :
        skip \in {Uint64(0), Uint64(1), Uint64(2), LargeSkip}, limit \in {1, 5}}
    \cup {<<Uint64(1), Uint64(5), 1>>}

\* the offset with the page counted from 0
OffsetFromZero(skip, limit) == MulUint64(skip, limit)

\* Offset((skip - 1) * limit), in uint64
Offset(skip, limit) == MulUint64(SubUint64(skip, Uint64(1)), limit)

\* SELECT * FROM products [WHERE category_id = categoryId] ORDER BY id LIMIT limit
\* OFFSET offset
RECURSIVE ProductsFrom(_, _)
ProductsFrom(id, categoryId) ==
    IF id > NumProducts THEN <<>>
    ELSE (IF ~IsNil(Row(products, id))
             /\ (categoryId = 0 \/ Deref(Row(products, id)).CategoryID = categoryId)
          THEN <<Deref(Row(products, id))>> ELSE <<>>)
         \o ProductsFrom(id + 1, categoryId)

SelectProducts(categoryId, limit, offset) ==
    LET rows == ProductsFrom(1, categoryId)
    IN IF ~IsSmall(offset) \/ Small(offset) >= Len(rows) THEN <<>>
       ELSE IF ~IsSmall(limit) THEN SubSeq(rows, Small(offset) + 1, Len(rows))
       ELSE SubSeq(rows, Small(offset) + 1, Min(Small(offset) + Small(limit), Len(rows)))

SerializeProducts(ps) ==
    IF Len(ps) = 0 THEN JNull ELSE JArr([i \in 1..Len(ps) |-> EncodeProduct(ps[i])])
DeserializeProducts(blob) ==
    IF JIsNull(blob) THEN <<>>
    ELSE [i \in 1..Len(blob[2]) |-> DecodeProduct(blob[2][i])]

\* "products:" and skip-limit-categoryId-search, the search empty
ProductsCacheKey(skip, limit, categoryId) ==
    GenerateCacheKey(<<"p", "r", "o", "d", "u", "c", "t", "s">>,
                     Decimal64(skip) \o <<"-">> \o Decimal64(limit) \o <<"-">>
                     \o Decimal(categoryId) \o <<"-">>)

\* the ListProducts calls, each with the cache key the service derives and the
\* offset the repository computes from its parameters
ListProductsCalls ==
    {[skip |-> params[1], limit |-> params[2], categoryId |-> params[3],
      key |-> ProductsCacheKey(params[1], params[2], params[3]),
      offset |-> Offset(params[1], params[2])] : params \in ListProductsParams}

\* ProductService.ListProducts with ProductRepository.ListProducts, as one step.
\* failAt: the call that fails (1 cache Get, 2 the query, 3 a category lookup,
\* 4 cache Set), 0 for none.
ListProductsOf(p, listCalls) ==
    /\ CanAccept(p)
    /\ \E call \in listCalls, failAt \in 0..4 :
          LET skip == call.skip
              limit == call.limit
              categoryId == call.categoryId
              key == call.key
              got == CacheGet(key, failAt = 1)
              answered == CacheAnswered(got[2])
              bad == answered /\ DeserializeFails(got[1])
              offset == call.offset
              rows == SelectProducts(categoryId, limit, offset)
              lookups == [i \in 1..Len(rows) |->
                             GetCategoryByID(rows[i].CategoryID, failAt = 3)]
              lookupFailed == \E i \in 1..Len(rows) : lookups[i][2] # NoError
              list == [i \in 1..Len(rows) |-> [rows[i] EXCEPT !.Category = lookups[i][1]]]
              err == IF answered THEN (IF bad THEN ErrDeserialize ELSE NoError)
                     ELSE IF failAt = 2 THEN ErrStorage
                     ELSE IF lookupFailed
                     THEN lookups[CHOOSE i \in 1..Len(rows) :
                                     /\ lookups[i][2] # NoError
                                     /\ \A j \in 1..(i - 1) : lookups[j][2] = NoError][2]
                     ELSE IF failAt = 4 THEN ErrCache
                     ELSE NoError
              stored == ~answered /\ err = NoError
              failed == IF answered \/ err = NoError THEN "none"
                        ELSE IF failAt = 2 THEN "list"
                        ELSE IF lookupFailed THEN "category" ELSE "set"
              r == [NewReq("ListProducts") EXCEPT
                       !.hit = answered /\ ~bad,
                       !.list = IF answered /\ ~bad THEN DeserializeProducts(got[1])
                                ELSE IF err = NoError THEN list ELSE <<>>,
                       !.query = IF answered THEN Nil
                                 ELSE Ptr([skip |-> skip, limit |-> limit, offset |-> offset])]
          IN /\ req' = [req EXCEPT ![p] = Return(r, err)]
             /\ cache' = IF stored THEN CacheSet(cache, key, SerializeProducts(list)) ELSE cache
             /\ cachedFrom' = IF stored
                              THEN CacheSet(cachedFrom, key, [value |-> list, by |-> <<>>])
                              ELSE cachedFrom
             /\ calls' = [calls EXCEPT ![p] =
                             CallsOf(IF answered THEN 1
                                     ELSE IF failAt = 2 THEN 2
                                     ELSE IF lookupFailed \/ failAt # 4 THEN 2 + Len(rows)
                                     ELSE 3 + Len(rows),
                                     failAt = 1, bad, failed,
                                     IF failed = "none" THEN NoError ELSE err)]
    /\ UNCHANGED <<products, categories, users, payments, orders, created, lastCreated, env>>

ListProducts(p) == ListProductsOf(p, ListProductsCalls)

NextList ==
    \E p \in Procs :
        \/ OneAtATime(p) /\ ListProducts(p)
        \/ OneAtATime(p) /\ DeleteProduct(p)
        \/ Respond(p)

SpecList == Init /\ [][NextList]_vars

(***************************************************************************)
(* The offset of a page of products (SpecList).                            *)
(***************************************************************************)
\* C29: ProductRepository.ListProducts queries with the offset (skip-1)*limit,
\* skip a page number counted from 1: for every skip and limit the service passes
\* through, the offset of the query is the natural number (skip-1)*limit, without
\* wrap-around of the uint64 subtraction or multiplication.
C29_OffsetIsExact ==
    \A p \in Procs :
        ~IsNil(req[p].query)
        => LET q == Deref(req[p].query)
           IN /\ ~IsZero(q.skip)
              /\ q.offset \o Uint64(0) = MulNat(SaturatingSub(q.skip, Uint64(1)), q.limit)

(***************************************************************************)
(* The order of CreateOrder's line checks (SpecCreate).                    *)
(***************************************************************************)
\* line k of draft o fails its check: its product is not stored, or it asks for
\* more than the stock
LineFails(o, k) == IsNil(LineProduct(o, k)) \/ ExceedsStock(o, k)

\* the first line of draft o that fails its check, 0 when none does
FirstFailing(o) ==
    IF \A k \in 1..Len(o.Products) : ~LineFails(o, k) THEN 0
    ELSE CHOOSE k \in 1..Len(o.Products) :
            LineFails(o, k) /\ \A j \in 1..(k - 1) : ~LineFails(o, j)

\* C30: CreateOrder checks the lines in draft order, one product lookup each, and
\* the first failing line fixes the outcome (a lookup failing in storage aside): if
\* its product is missing the repository's not-found error is returned as it is,
\* if its quantity exceeds the stock InsufficientStock is returned, and the
\* product of no later line has been fetched.
C30_FirstFailingLineDecides ==
    \A p \in Procs :
        LET o == req[p].order
            k == FirstFailing(o)
        IN /\ At(p, "CreateOrder", "check")
              => /\ calls[p].made = req[p].i - 1
                 /\ \A j \in 1..(req[p].i - 1) : ~LineFails(o, j)
           /\ (ReturnedCreateOrder(p) /\ k > 0 /\ req[p].err # ErrStorage)
              => /\ req[p].err = IF IsNil(LineProduct(o, k)) THEN ErrDataNotFound
                                 ELSE ErrInsufficientStock
                 /\ calls[p].made = k
                 /\ calls[p].failedCall \in {"none", "check"}
                 /\ NothingPersisted(p)

\* a first line over its stock was refused with a second line, of a stored
\* product, never looked up
C30_Witness ==
    \E p \in Procs :
        /\ ReturnedCreateOrder(p)
        /\ req[p].err = ErrInsufficientStock
        /\ Len(req[p].order.Products) = 2
        /\ FirstFailing(req[p].order) = 1
        /\ ~IsNil(LineProduct(req[p].order, 2))
        /\ calls[p].made = 1

(***************************************************************************)
(* CreateOrder refused in validation, with orders and cache entries there   *)
(* already (SpecRefuse).                                                   *)
(***************************************************************************)
\* the catalogue with one piece of every product in stock
InitLowStock ==
    /\ products \in {f \in [ProductIds -> ProductRows] :
                        \A id \in ProductIds : /\ Deref(f[id]).ID = id
                                               /\ Deref(f[id]).Stock = 1
                                               /\ Deref(f[id]).Price = MaxPrice}
    /\ InitRest

\* one-line drafts of the first product or of an unknown one, within and over the
\* stock, paid in full or short
RefusableRequests ==
    {body \in CreateOrderRequests(ProductLists(1)) :
        /\ body.PaymentID = 1
        /\ body.HasProducts
        /\ body.TotalPaid \in {1, MaxPaid}
        /\ Len(body.Products) = 1
        /\ body.Products[1].ProductID \in {1, NumProducts + 1}
        /\ body.Products[1].Quantity \in 1..MaxQty}

NextRefuse ==
    \E p \in Procs :
        \/ OneAtATime(p) /\ HandleCreateOrder(p, RefusableRequests, MaxOrders)
        \/ OneAtATime(p) /\ HandleGetOrderOf(p, {1})
        \/ OneAtATime(p) /\ HandleListOrdersOf(p, {MaxOrders - 1}, {MinLimit})
        \/ CreateOrderStep(p)
        \/ GetOrderStep(p)
        \/ ListOrdersStep(p)
        \/ Respond(p)

SpecRefuse == InitLowStock /\ [][NextRefuse]_vars

\* the draft of request p does not pass validation: a line fails its check, or
\* the lines pass and total_paid is below what is due
FailsValidation(p) ==
    LET o == req[p].order
    IN \/ FirstFailing(o) > 0
       \/ AllProductsExist(o) /\ o.TotalPaid < Due(o)

\* C31: when CreateOrder fails during validation (a missing product, a line over
\* its stock, or a payment below the total) the order repository's CreateOrder is
\* not called and no cache key is set or deleted: the request makes product
\* lookups only, and no step of it changes order storage or the cache.
C31_RefusedOrderChangesNothing ==
    /\ [](\A p \in Procs :
             (ReturnedCreateOrder(p) /\ FailsValidation(p))
             => /\ req[p].err \in {ErrDataNotFound, ErrInsufficientStock,
                                   ErrInsufficientPayment, ErrStorage}
                /\ calls[p].made <= Len(req[p].order.Products)
                /\ calls[p].failedCall \in {"none", "check"}
                /\ NothingPersisted(p)
                /\ DOMAIN cache = req[p].keysBefore)
    /\ [][\A p \in Procs :
             (req[p].op = "CreateOrder" /\ req[p].pc \in {"idle", "check"}
                 /\ req'[p].op = "CreateOrder" /\ req'[p].pc \in {"check", "done"})
             => orders' = orders /\ cache' = cache]_vars

\* an underpaid order was refused with an order in storage and its key, and a
\* page of the list, in the cache
C31_Witness ==
    \E p \in Procs :
        /\ ReturnedCreateOrder(p)
        /\ req[p].err = ErrInsufficientPayment
        /\ Len(orders) = 1
        /\ OrderCacheKey(1) \in DOMAIN cache
        /\ Cardinality(DOMAIN cache) > 1

(***************************************************************************)
(* CreateOrder and ListOrders interleaved (SpecRace): worker 1 creates      *)
(* orders while worker 2 lists the page that begins at the second order.   *)
(***************************************************************************)
NextRace ==
    \E p \in Procs :
        \/ p = 1 /\ HandleCreateOrder(p, FirstProductRequests, MaxOrders)
        \/ p # 1 /\ HandleListOrdersOf(p, {MaxOrders - 1}, {MinLimit})
        \/ CreateOrderStep(p)
        \/ ListOrdersStep(p)
        \/ Respond(p)

SpecRace == Init /\ [][NextRace]_vars

\* the ids of the orders of a page
PageIds(page) == {page[n].ID : n \in 1..Len(page)}

\* C32: under any interleaving of a CreateOrder with ListOrders calls, once the
\* CreateOrder has returned successfully the cache holds no orders-list entry
\* computed from storage as it was before the order was persisted: every cached
\* page holds the new order when storage's page does (so that a ListOrders that
\* starts afterwards, served from the cache, does not omit it).
C32_NoStalePageAfterCreate ==
    \A skip \in 0..MaxSkip, limit \in MinLimit..MaxLimit :
        OrdersCacheKey(skip, limit) \in DOMAIN cache
        => \A id \in created :
              id \in PageIds(OrdersPage(skip, limit))
              => id \in PageIds(DeserializeOrders(cache[OrdersCacheKey(skip, limit)]))

(***************************************************************************)
(* CategoryService, one action per repository or cache call, so that calls *)
(* of different workers interleave.  req[p].category is the category the   *)
(* call holds: the row it read, or the category it was given.              *)
(***************************************************************************)
CategoryNames == {DefaultName, "b"}
UnknownCategory == NumCategories + 1

CategoriesTag == <<"c", "a", "t", "e", "g", "o", "r", "i", "e", "s">>
CategoriesPattern == CategoriesTag \o <<":", "*">>
CategoriesCacheKey(skip, limit) ==
    GenerateCacheKey(CategoriesTag, GenerateCacheKeyParams(<<skip, limit>>))

SerializeCategories(cs) ==
    IF Len(cs) = 0 THEN JNull ELSE JArr([i \in 1..Len(cs) |-> EncodeCategory(cs[i])])
DeserializeCategories(blob) ==
    IF JIsNull(blob) THEN <<>>
    ELSE [i \in 1..Len(blob[2]) |-> DecodeCategory(blob[2][i])]

\* CategoryRepository.ListCategories(skip, limit): the rows in id order, from offset skip
RECURSIVE CategoriesUpTo(_)
CategoriesUpTo(n) ==
    IF n = 0 THEN <<>>
    ELSE CategoriesUpTo(n - 1)
         \o (IF IsNil(Row(categories, n)) THEN <<>> ELSE <<Deref(Row(categories, n))>>)
CategoriesPage(skip, limit) ==
    LET rows == CategoriesUpTo(NumCategories)
    IN SubSeq(rows, skip + 1, Min(skip + limit, Len(rows)))

\* CategoryRepository.UpdateCategory(category): the row takes the given name
UpdateCategoryKeepingName(table, category) == table
UpdateCategoryRow(table, category) ==
    [table EXCEPT ![category.ID] = Ptr([Deref(table[category.ID]) EXCEPT !.Name = category.Name])]

\* CategoryRepository.DeleteCategory(id)
DeleteCategoryRow(table, id) == [table EXCEPT ![id] = Nil]

CategoryFrame == <<products, users, payments, orders, created, lastCreated, env, calls>>

Reached(p, pc) == req[p].pc = pc
Goto(p, pc) == req' = [req EXCEPT ![p].pc = pc]
Fail(p, err) == req' = [req EXCEPT ![p] = Return(req[p], err)]

\* the entries of cachedFrom for the keys left in the cache
Kept(entries) == [k \in DOMAIN entries |-> cachedFrom[k]]

HandleGetCategory(p) ==
    /\ CanAccept(p)
    /\ \E id \in 1..UnknownCategory :
          req' = [req EXCEPT ![p] = [NewReq("GetCategory") EXCEPT !.id = id, !.pc = "category:get"]]
    /\ UNCHANGED <<categories, cache, cachedFrom>>
    /\ UNCHANGED CategoryFrame

\* cache.Get(cacheKey) and, on a hit, Deserialize
GetCategoryFromCache(p) ==
    /\ Reached(p, "category:get")
    /\ \E fail \in BOOLEAN :
          LET got == CacheGet(CategoryCacheKey(req[p].id), fail)
          IN IF CacheAnswered(got[2])
             THEN IF DeserializeFails(got[1]) THEN Fail(p, ErrInternal)
                  ELSE req' = [req EXCEPT ![p] =
                                  Return([req[p] EXCEPT !.hit = TRUE,
                                                        !.category = Ptr(DecodeCategory(got[1]))],
                                         NoError)]
             ELSE Goto(p, "category:fetch")
    /\ UNCHANGED <<categories, cache, cachedFrom>>
    /\ UNCHANGED CategoryFrame

\* repo.GetCategoryByID(id)
GetCategoryFetch(p) ==
    /\ Reached(p, "category:fetch")
    /\ \E fail \in BOOLEAN :
          LET row == GetCategoryByID(req[p].id, fail)
          IN IF row[2] = ErrDataNotFound THEN Fail(p, row[2])
             ELSE IF row[2] # NoError THEN Fail(p, ErrInternal)
             ELSE req' = [req EXCEPT ![p].category = row[1], ![p].pc = "category:set"]
    /\ UNCHANGED <<categories, cache, cachedFrom>>
    /\ UNCHANGED CategoryFrame

\* Serialize(category) and cache.Set(cacheKey, categorySerialized, 0)
GetCategoryCache(p) ==
    /\ Reached(p, "category:set")
    /\ \E fail \in BOOLEAN :
          LET key == CategoryCacheKey(req[p].id)
              category == Deref(req[p].category)
          IN IF fail
             THEN /\ Fail(p, ErrInternal)
                  /\ UNCHANGED <<cache, cachedFrom>>
             ELSE /\ cache' = CacheSet(cache, key, EncodeCategory(category))
                  /\ cachedFrom' = CacheSet(cachedFrom, key,
                                            [value |-> category, by |-> <<req[p].id>>])
                  /\ req' = [req EXCEPT ![p] = Return(req[p], NoError)]
    /\ UNCHANGED categories
    /\ UNCHANGED CategoryFrame

GetCategoryStep(p) ==
    \/ GetCategoryFromCache(p)
    \/ GetCategoryFetch(p)
    \/ GetCategoryCache(p)

HandleListCategories(p) ==
    /\ CanAccept(p)
    /\ \E skip \in {0}, limit \in {MinLimit} :
          req' = [req EXCEPT ![p] = [NewReq("ListCategories") EXCEPT
                                        !.skip = skip, !.limit = limit, !.pc = "categories:get"]]
    /\ UNCHANGED <<categories, cache, cachedFrom>>
    /\ UNCHANGED CategoryFrame

\* cache.Get(cacheKey) and, on a hit, Deserialize
ListCategoriesFromCache(p) ==
    /\ Reached(p, "categories:get")
    /\ \E fail \in BOOLEAN :
          LET got == CacheGet(CategoriesCacheKey(req[p].skip, req[p].limit), fail)
          IN IF CacheAnswered(got[2])
             THEN IF DeserializeFails(got[1]) THEN Fail(p, ErrInternal)
                  ELSE req' = [req EXCEPT ![p] =
                                  Return([req[p] EXCEPT !.hit = TRUE,
                                                        !.list = DeserializeCategories(got[1])],
                                         NoError)]
             ELSE Goto(p, "categories:fetch")
    /\ UNCHANGED <<categories, cache, cachedFrom>>
    /\ UNCHANGED CategoryFrame

\* repo.ListCategories(skip, limit)
ListCategoriesFetch(p) ==
    /\ Reached(p, "categories:fetch")
    /\ \E fail \in BOOLEAN :
          IF fail THEN Fail(p, ErrInternal)
          ELSE req' = [req EXCEPT ![p].list = CategoriesPage(req[p].skip, req[p].limit),
                                  ![p].pc = "categories:set"]
    /\ UNCHANGED <<categories, cache, cachedFrom>>
    /\ UNCHANGED CategoryFrame

\* Serialize(categories) and cache.Set(cacheKey, categoriesSerialized, 0)
ListCategoriesCache(p) ==
    /\ Reached(p, "categories:set")
    /\ \E fail \in BOOLEAN :
          LET key == CategoriesCacheKey(req[p].skip, req[p].limit)
          IN IF fail
             THEN /\ Fail(p, ErrInternal)
                  /\ UNCHANGED <<cache, cachedFrom>>
             ELSE /\ cache' = CacheSet(cache, key, SerializeCategories(req[p].list))
                  /\ cachedFrom' = CacheSet(cachedFrom, key,
                                            [value |-> req[p].list,
                                             by |-> <<req[p].skip, req[p].limit>>])
                  /\ req' = [req EXCEPT ![p] = Return(req[p], NoError)]
    /\ UNCHANGED categories
    /\ UNCHANGED CategoryFrame

ListCategoriesStep(p) ==
    \/ ListCategoriesFromCache(p)
    \/ ListCategoriesFetch(p)
    \/ ListCategoriesCache(p)

HandleUpdateCategory(p) ==
    /\ CanAccept(p)
    /\ \E id \in 1..UnknownCategory, name \in CategoryNames \cup {""} :
          req' = [req EXCEPT ![p] = [NewReq("UpdateCategory") EXCEPT
                                        !.id = id, !.pc = "update:find",
                                        !.category = Ptr([ID |-> id, Name |-> name])]]
    /\ UNCHANGED <<categories, cache, cachedFrom>>
    /\ UNCHANGED CategoryFrame

\* emptyData || sameData of UpdateCategory
NoUpdatedCategory(existing, category) ==
    LET emptyData == category.Name = ""
        sameData == existing.Name = category.Name
    IN emptyData \/ sameData

\* repo.GetCategoryByID(category.ID), then the check of the supplied data
UpdateCategoryFind(p) ==
    /\ Reached(p, "update:find")
    /\ \E fail \in BOOLEAN :
          LET row == GetCategoryByID(req[p].id, fail)
          IN IF row[2] = ErrDataNotFound THEN Fail(p, row[2])
             ELSE IF row[2] # NoError THEN Fail(p, ErrInternal)
             ELSE IF NoUpdatedCategory(Deref(row[1]), Deref(req[p].category))
                  THEN Fail(p, ErrNoUpdatedData)
             ELSE Goto(p, "update:row")
    /\ UNCHANGED <<categories, cache, cachedFrom>>
    /\ UNCHANGED CategoryFrame

\* repo.UpdateCategory(category); the row may have been deleted since it was found
UpdateCategoryPersist(p) ==
    /\ Reached(p, "update:row")
    /\ \E fail \in BOOLEAN :
          IF fail \/ IsNil(Row(categories, req[p].id))
          THEN /\ Fail(p, ErrInternal)
               /\ UNCHANGED categories
          ELSE /\ categories' = UpdateCategoryRow(categories, Deref(req[p].category))
               /\ Goto(p, "update:delete")
    /\ UNCHANGED <<cache, cachedFrom>>
    /\ UNCHANGED CategoryFrame

\* cache.Delete(cacheKey)
UpdateCategoryInvalidate(p) ==
    /\ Reached(p, "update:delete")
    /\ \E fail \in BOOLEAN :
          IF fail
          THEN /\ Fail(p, ErrInternal)
               /\ UNCHANGED <<cache, cachedFrom>>
          ELSE /\ cache' = CacheDelete(cache, CategoryCacheKey(req[p].id))
               /\ cachedFrom' = Kept(cache')
               /\ Goto(p, "update:set")
    /\ UNCHANGED categories
    /\ UNCHANGED CategoryFrame

\* Serialize(category) and cache.Set(cacheKey, categorySerialized, 0)
UpdateCategoryCache(p) ==
    /\ Reached(p, "update:set")
    /\ \E fail \in BOOLEAN :
          LET key == CategoryCacheKey(req[p].id)
              category == Deref(req[p].category)
          IN IF fail
             THEN /\ Fail(p, ErrInternal)
                  /\ UNCHANGED <<cache, cachedFrom>>
             ELSE /\ cache' = CacheSet(cache, key, EncodeCategory(category))
                  /\ cachedFrom' = CacheSet(cachedFrom, key,
                                            [value |-> category, by |-> <<req[p].id>>])
                  /\ Goto(p, "update:prefix")
    /\ UNCHANGED categories
    /\ UNCHANGED CategoryFrame

\* cache.DeleteByPrefix("categories:*")
UpdateCategoryInvalidateLists(p) ==
    /\ Reached(p, "update:prefix")
    /\ \E fail \in BOOLEAN :
          IF fail
          THEN /\ Fail(p, ErrInternal)
               /\ UNCHANGED <<cache, cachedFrom>>
          ELSE /\ cache' = CacheDeleteByPrefix(cache, CategoriesPattern)
               /\ cachedFrom' = Kept(cache')
               /\ req' = [req EXCEPT ![p] = Return(req[p], NoError)]
    /\ UNCHANGED categories
    /\ UNCHANGED CategoryFrame

UpdateCategoryStep(p) ==
    \/ UpdateCategoryFind(p)
    \/ UpdateCategoryPersist(p)
    \/ UpdateCategoryInvalidate(p)
    \/ UpdateCategoryCache(p)
    \/ UpdateCategoryInvalidateLists(p)

HandleDeleteCategory(p) ==
    /\ CanAccept(p)
    /\ \E id \in 1..UnknownCategory :
          req' = [req EXCEPT ![p] = [NewReq("DeleteCategory") EXCEPT
                                        !.id = id, !.pc = "delete:find"]]
    /\ UNCHANGED <<categories, cache, cachedFrom>>
    /\ UNCHANGED CategoryFrame

\* repo.GetCategoryByID(id)
DeleteCategoryFind(p) ==
    /\ Reached(p, "delete:find")
    /\ \E fail \in BOOLEAN :
          LET row == GetCategoryByID(req[p].id, fail)
          IN IF row[2] = ErrDataNotFound THEN Fail(p, row[2])
             ELSE IF row[2] # NoError THEN Fail(p, ErrInternal)
             ELSE Goto(p, "delete:cache")
    /\ UNCHANGED <<categories, cache, cachedFrom>>
    /\ UNCHANGED CategoryFrame

\* cache.Delete(cacheKey)
DeleteCategoryInvalidate(p) ==
    /\ Reached(p, "delete:cache")
    /\ \E fail \in BOOLEAN :
          IF fail
          THEN /\ Fail(p, ErrInternal)
               /\ UNCHANGED <<cache, cachedFrom>>
          ELSE /\ cache' = CacheDelete(cache, CategoryCacheKey(req[p].id))
               /\ cachedFrom' = Kept(cache')
               /\ Goto(p, "delete:prefix")
    /\ UNCHANGED categories
    /\ UNCHANGED CategoryFrame

\* cache.DeleteByPrefix("categories:*")
DeleteCategoryInvalidateLists(p) ==
    /\ Reached(p, "delete:prefix")
    /\ \E fail \in BOOLEAN :
          IF fail
          THEN /\ Fail(p, ErrInternal)
               /\ UNCHANGED <<cache, cachedFrom>>
          ELSE /\ cache' = CacheDeleteByPrefix(cache, CategoriesPattern)
               /\ cachedFrom' = Kept(cache')
               /\ Goto(p, "delete:row")
    /\ UNCHANGED categories
    /\ UNCHANGED CategoryFrame

\* return repo.DeleteCategory(id): the repository's error is returned as it is
DeleteCategoryPersist(p) ==
    /\ Reached(p, "delete:row")
    /\ \E fail \in BOOLEAN :
          IF fail
          THEN /\ Fail(p, ErrStorage)
               /\ UNCHANGED categories
          ELSE /\ categories' = DeleteCategoryRow(categories, req[p].id)
               /\ req' = [req EXCEPT ![p] = Return(req[p], NoError)]
    /\ UNCHANGED <<cache, cachedFrom>>
    /\ UNCHANGED CategoryFrame

DeleteCategoryStep(p) ==
    \/ DeleteCategoryFind(p)
    \/ DeleteCategoryInvalidate(p)
    \/ DeleteCategoryInvalidateLists(p)
    \/ DeleteCategoryPersist(p)

\* Worker 1 changes categories while the other workers read them
NextCategory ==
    \E p \in Procs :
        \/ p = 1 /\ HandleDeleteCategory(p)
        \/ p = 1 /\ HandleUpdateCategory(p)
        \/ p # 1 /\ HandleGetCategory(p)
        \/ p # 1 /\ HandleListCategories(p)
        \/ DeleteCategoryStep(p)
        \/ UpdateCategoryStep(p)
        \/ GetCategoryStep(p)
        \/ ListCategoriesStep(p)
        \/ Respond(p)

SpecCategory == Init /\ [][NextCategory]_vars

\* DeleteCategory(id) has returned successfully
Deleted(p, id) ==
    /\ req[p].op = "DeleteCategory"
    /\ req[p].pc = "done"
    /\ req[p].err = NoError
    /\ req[p].id = id

\* C33: under any interleaving of DeleteCategory(id) with GetCategory(id) calls, once
\* the delete has returned successfully the cache holds no entry for the id (so that
\* a GetCategory(id) that starts afterwards misses the cache and returns NotFound).
C33_NoEntryAfterDelete ==
    \A p \in Procs, id \in CategoryIds :
        Deleted(p, id) => CategoryCacheKey(id) \notin DOMAIN cache

\* UpdateCategory of category id has returned successfully
Updated(p, id) ==
    /\ req[p].op = "UpdateCategory"
    /\ req[p].pc = "done"
    /\ req[p].err = NoError
    /\ req[p].id = id

\* the category entry of id, if there is one, holds the stored row
EntryIsStoredRow(id) ==
    CategoryCacheKey(id) \in DOMAIN cache
    => /\ ~DeserializeFails(cache[CategoryCacheKey(id)])
       /\ Ptr(DecodeCategory(cache[CategoryCacheKey(id)])) = Row(categories, id)

\* every cached page of categories is the page storage holds
PagesAreStoredPages ==
    \A skip \in 0..MaxSkip, limit \in MinLimit..MaxLimit :
        CategoriesCacheKey(skip, limit) \in DOMAIN cache
        => DeserializeCategories(cache[CategoriesCacheKey(skip, limit)])
              = CategoriesPage(skip, limit)

\* C34: under any interleaving of UpdateCategory(id) with GetCategory(id) and
\* ListCategories calls, once the update has returned successfully the entry of the
\* category and every cached page hold the updated stored value (so that no Get or
\* List that starts afterwards returns the value from before the update).
C34_CacheReflectsUpdate ==
    \A p \in Procs, id \in CategoryIds :
        Updated(p, id) => EntryIsStoredRow(id) /\ PagesAreStoredPages

(***************************************************************************)
(* Products read while their category is renamed (SpecNested): one worker, *)
(* one call at a time.                                                     *)
(***************************************************************************)
\* the listing of the first page of five, of all categories
FirstPageCalls ==
    {call \in ListProductsCalls :
        call.skip = Uint64(1) /\ call.limit = Uint64(5) /\ call.categoryId = 0}

NextNested ==
    \E p \in {1} :
        \/ HandleUpdateCategory(p)
        \/ UpdateCategoryStep(p)
        \/ GetProduct(p)
        \/ ListProductsOf(p, FirstPageCalls)
        \/ Respond(p)

SpecNested == Init /\ [][NextNested]_vars

\* the nested Category of a cached product is the stored row of its category
NestedIsStored(product) == product.Category = Row(categories, product.CategoryID)

\* C35: after a successful UpdateCategory of category c, the products that GetProduct
\* and ListProducts return for a product of category c carry the nested Category as
\* storage now holds it: no product entry and no products page left in the cache,
\* from which the next GetProduct or ListProducts is served, embeds another value.
C35_NestedCategoryIsStored ==
    \A p \in Procs, c \in CategoryIds :
        Updated(p, c)
        => /\ \A id \in ProductIds :
                 ProductCacheKey(id) \in DOMAIN cache
                 => NestedIsStored(DecodeProduct(cache[ProductCacheKey(id)]))
           /\ \A call \in ListProductsCalls :
                 call.key \in DOMAIN cache
                 => \A n \in 1..Len(DeserializeProducts(cache[call.key])) :
                       NestedIsStored(DeserializeProducts(cache[call.key])[n])

(***************************************************************************)
(* The Update operations of the four services (SpecUpdate).  The rows of   *)
(* this specification carry the fields the updates read and write:         *)
(* a product its name and image, a user name, email, password hash and     *)
(* role, a payment method name, type and logo.  req[p].input is the entity *)
(* the call was given.                                                     *)
(***************************************************************************)
ProductRow(id, categoryId, name, image, stock, price) ==
    [ID |-> id, CategoryID |-> categoryId, Name |-> name, Image |-> image,
     Stock |-> stock, Price |-> price, Category |-> Nil]
UserRow(id, name, email, password, role) ==
    [ID |-> id, Name |-> name, Email |-> email, Password |-> password, Role |-> role]
PaymentRow(id, name, type, logo) == [ID |-> id, Name |-> name, Type |-> type, Logo |-> logo]

EncodeProductRow(p) ==
    JObj(<< <<"ID", JNum(p.ID)>>,
            <<"CategoryID", JNum(p.CategoryID)>>,
            <<"Name", JStr(p.Name)>>,
            <<"Image", JStr(p.Image)>>,
            <<"Stock", JNum(p.Stock)>>,
            <<"Price", JNum(p.Price)>>,
            <<"Category", IF IsNil(p.Category) THEN JNull
                          ELSE EncodeCategory(Deref(p.Category))>> >>)
DecodeProductRow(v) ==
    [ID |-> Member(v, "ID")[2],
     CategoryID |-> Member(v, "CategoryID")[2],
     Name |-> Member(v, "Name")[2],
     Image |-> Member(v, "Image")[2],
     Stock |-> Member(v, "Stock")[2],
     Price |-> Member(v, "Price")[2],
     Category |-> IF JIsNull(Member(v, "Category")) THEN Nil
                  ELSE Ptr(DecodeCategory(Member(v, "Category")))]
EncodeUserRow(u) ==
    JObj(<< <<"ID", JNum(u.ID)>>, <<"Name", JStr(u.Name)>>, <<"Email", JStr(u.Email)>>,
            <<"Password", JStr(u.Password)>>, <<"Role", JStr(u.Role)>> >>)
EncodePaymentRow(m) ==
    JObj(<< <<"ID", JNum(m.ID)>>, <<"Name", JStr(m.Name)>>, <<"Type", JStr(m.Type)>>,
            <<"Logo", JStr(m.Logo)>> >>)

\* cmutil.HashPassword: the hash of a password is not the password
HashPassword(password) == "$2a$" \o password

\* cmutil.NullString, NullUint64, NullInt64, NullFloat64: the zero value is NULL
NullString(value) == IF value = "" THEN Nil ELSE Ptr(value)
NullNumberValid(value) == Ptr(value)
NullNumber(value) == IF value = 0 THEN Nil ELSE Ptr(value)

\* COALESCE(?, column)
Coalesce(value, column) == IF IsNil(value) THEN column ELSE Deref(value)

\* ProductRepository.UpdateProduct: the row after the UPDATE, which is also what
\* RETURNING * scans into the given product
UpdateProductRow(row, product) ==
    [row EXCEPT !.Name = Coalesce(NullString(product.Name), row.Name),
                !.CategoryID = Coalesce(NullNumber(product.CategoryID), row.CategoryID),
                !.Image = Coalesce(NullString(product.Image), row.Image),
                !.Price = Coalesce(NullNumber(product.Price), row.Price),
                !.Stock = Coalesce(NullNumber(product.Stock), row.Stock)]

\* UserRepository.UpdateUser and PaymentRepository.UpdatePayment, as the product's
UpdateUserRow(row, user) ==
    [row EXCEPT !.Name = Coalesce(NullString(user.Name), row.Name),
                !.Email = Coalesce(NullString(user.Email), row.Email),
                !.Password = Coalesce(NullString(user.Password), row.Password),
                !.Role = Coalesce(NullString(user.Role), row.Role)]
UpdatePaymentRow(row, payment) ==
    [row EXCEPT !.Name = Coalesce(NullString(payment.Name), row.Name),
                !.Type = Coalesce(NullString(payment.Type), row.Type),
                !.Logo = Coalesce(NullString(payment.Logo), row.Logo)]

UserCacheKey(id) == GenerateCacheKey(<<"u", "s", "e", "r">>, Decimal(id))
UsersPattern == <<"u", "s", "e", "r", "s", ":", "*">>
PaymentCacheKey(id) == GenerateCacheKey(<<"p", "a", "y", "m", "e", "n", "t">>, Decimal(id))
PaymentsPattern == <<"p", "a", "y", "m", "e", "n", "t", "s", ":", "*">>

DefaultImage == "i"
DefaultEmail == "e"
DefaultPassword == "old"
DefaultType == "cash"
DefaultLogo == "l"

\* the entities given to the updates: of a stored and of an unknown id, each field
\* left out, as stored, or changed
ProductInputs ==
    {ProductRow(id, c, name, image, stock, price) :
        id \in {1, NumProducts + 1}, c \in 0..UnknownCategory, name \in {"", DefaultName},
        image \in {"", DefaultImage}, stock \in {0, MaxStock - 1, MaxStock},
        price \in {0, MaxPrice}}
UserInputs ==
    {UserRow(id, name, email, password, role) :
        id \in {1, NumUsers + 1}, name \in {"", DefaultName}, email \in {"", DefaultEmail},
        password \in {"", "new"}, role \in {"", Admin, Cashier}}
PaymentInputs ==
    {PaymentRow(id, name, type, logo) :
        id \in {1, NumPayments + 1}, name \in {"", DefaultName},
        type \in {"", DefaultType, "card"}, logo \in {"", DefaultLogo}}

NoRows == <<>>

\* a database with a catalogue only, with users only, or with payment methods only
InitUpdate ==
    /\ \E populated \in {"catalogue", "users", "payments"} :
          /\ products = IF populated = "catalogue"
                        THEN [id \in ProductIds |->
                                 Ptr(ProductRow(id, 1, DefaultName, DefaultImage,
                                                MaxStock, MaxPrice))]
                        ELSE NoRows
          /\ categories = IF populated = "catalogue"
                          THEN [id \in CategoryIds |-> Ptr(Category(id))]
                          ELSE NoRows
          /\ users = IF populated = "users"
                     THEN [id \in UserIds |->
                              Ptr(UserRow(id, DefaultName, DefaultEmail,
                                          HashPassword(DefaultPassword), Cashier))]
                     ELSE NoRows
          /\ payments = IF populated = "payments"
                        THEN [id \in PaymentIds |->
                                 Ptr(PaymentRow(id, DefaultName, DefaultType, DefaultLogo))]
                        ELSE NoRows
    /\ orders = <<>>
    /\ cache = EmptyCache
    /\ cachedFrom = EmptyCache
    /\ req = [p \in Procs |-> IdleReq]
    /\ created = {}
    /\ lastCreated = 0
    /\ env = FALSE
    /\ calls = [p \in Procs |-> NoCalls]

\* emptyData || sameData of UpdateProduct
NoUpdatedProduct(existing, product) ==
    LET emptyData == /\ product.CategoryID = 0
                     /\ product.Name = ""
                     /\ product.Image = ""
                     /\ product.Price = 0
                     /\ product.Stock = 0
        sameData == /\ existing.CategoryID = product.CategoryID
                    /\ existing.Name = product.Name
                    /\ existing.Image = product.Image
                    /\ existing.Price = product.Price
                    /\ existing.Stock = product.Stock
    IN emptyData \/ sameData

\* emptyData || sameData of UpdateUser
NoUpdatedUser(existing, user) ==
    LET emptyData == /\ user.Name = ""
                     /\ user.Email = ""
                     /\ user.Password = ""
                     /\ user.Role = ""
        sameData == /\ existing.Name = user.Name
                    /\ existing.Email = user.Email
                    /\ existing.Role = user.Role
    IN emptyData \/ sameData

\* emptyData || sameData of UpdatePayment
NoUpdatedPaymentEmptyOnly(existing, payment) ==
    payment.Name = "" /\ payment.Type = "" /\ payment.Logo = ""
NoUpdatedPayment(existing, payment) ==
    LET emptyData == payment.Name = "" /\ payment.Type = "" /\ payment.Logo = ""
        sameData == /\ existing.Name = payment.Name
                    /\ existing.Type = payment.Type
                    /\ existing.Logo = payment.Logo
    IN emptyData \/ sameData

\* an update from its first call to its return, started as op with the given entity
Started(op, input) == [NewReq(op) EXCEPT !.id = input.ID, !.input = Ptr(input)]

\* ProductService.UpdateProduct(product); failAt is the call that fails, if any:
\* 1 GetProductByID, 2 GetCategoryByID, 3 UpdateProduct, 4 Set, 5 DeleteByPrefix;
\* the error of cache.Delete is dropped
UpdateProductCall(p) ==
    /\ CanAccept(p)
    /\ \E input \in ProductInputs, failAt \in 0..5, deleteFails \in BOOLEAN :
          LET got == GetProductByID(input.ID, failAt = 1)
              found == got[2] = NoError
              existing == Deref(got[1])
              refused == found /\ NoUpdatedProduct(existing, input)
              categoryId == IF input.CategoryID = 0 THEN existing.CategoryID
                            ELSE input.CategoryID
              category == IF found /\ ~refused THEN GetCategoryByID(categoryId, failAt = 2)
                          ELSE <<Nil, NoError>>
              checked == found /\ ~refused /\ category[2] = NoError
              updated == checked /\ failAt # 3
              row == UpdateProductRow(existing, [input EXCEPT !.CategoryID = categoryId])
              product == [row EXCEPT !.Category = category[1]]
              key == ProductCacheKey(input.ID)
              didSet == updated /\ failAt # 4
              deleted == IF updated /\ ~deleteFails THEN CacheDelete(cache, key) ELSE cache
              set == IF didSet THEN CacheSet(deleted, key, EncodeProductRow(product))
                     ELSE deleted
              cleared == IF didSet /\ failAt # 5 THEN CacheDeleteByPrefix(set, ProductsPattern)
                         ELSE set
              err == IF ~found THEN got[2]
                     ELSE IF refused THEN ErrNoUpdatedData
                     ELSE IF category[2] # NoError THEN category[2]
                     ELSE IF failAt = 3 THEN ErrStorage
                     ELSE IF failAt \in {4, 5} THEN ErrCache
                     ELSE NoError
          IN /\ req' = [req EXCEPT ![p] = Return(Started("UpdateProduct", input), err)]
             /\ products' = IF updated THEN [products EXCEPT ![input.ID] = Ptr(row)]
                            ELSE products
             /\ cache' = cleared
             /\ cachedFrom' = [k \in DOMAIN cleared |->
                                  IF k = key /\ didSet
                                  THEN [value |-> product, by |-> <<input.ID>>]
                                  ELSE cachedFrom[k]]
    /\ UNCHANGED <<categories, users, payments, orders, created, lastCreated, env, calls>>

\* UserService.UpdateUser(user); failAt is the call that fails, if any:
\* 1 GetUserByID, 2 HashPassword, 3 UpdateUser, 4 Delete, 5 Set, 6 DeleteByPrefix
UpdateUser(p) ==
    /\ CanAccept(p)
    /\ \E input \in UserInputs, failAt \in 0..6 :
          LET got == GetUserByID(input.ID, failAt = 1)
              found == got[2] = NoError
              existing == Deref(got[1])
              refused == found /\ NoUpdatedUser(existing, input)
              hashedPassword == IF input.Password # "" THEN HashPassword(input.Password)
                                ELSE ""
              hashed == found /\ ~refused /\ ~(input.Password # "" /\ failAt = 2)
              updated == hashed /\ failAt # 3
              user == UpdateUserRow(existing, [input EXCEPT !.Password = hashedPassword])
              key == UserCacheKey(input.ID)
              didDelete == updated /\ failAt # 4
              didSet == didDelete /\ failAt # 5
              deleted == IF didDelete THEN CacheDelete(cache, key) ELSE cache
              set == IF didSet THEN CacheSet(deleted, key, EncodeUserRow(user)) ELSE deleted
              cleared == IF didSet /\ failAt # 6 THEN CacheDeleteByPrefix(set, UsersPattern)
                         ELSE set
              err == IF ~found THEN (IF got[2] = ErrDataNotFound THEN got[2] ELSE ErrInternal)
                     ELSE IF refused THEN ErrNoUpdatedData
                     ELSE IF ~hashed \/ failAt \in 3..6 THEN ErrInternal
                     ELSE NoError
          IN /\ req' = [req EXCEPT ![p] = Return(Started("UpdateUser", input), err)]
             /\ users' = IF updated THEN [users EXCEPT ![input.ID] = Ptr(user)] ELSE users
             /\ cache' = cleared
             /\ cachedFrom' = [k \in DOMAIN cleared |->
                                  IF k = key /\ didSet
                                  THEN [value |-> user, by |-> <<input.ID>>]
                                  ELSE cachedFrom[k]]
    /\ UNCHANGED <<products, categories, payments, orders, created, lastCreated, env, calls>>

\* PaymentService.UpdatePayment(payment); failAt is the call that fails, if any:
\* 1 GetPaymentByID, 2 UpdatePayment, 3 Delete, 4 Set, 5 DeleteByPrefix
UpdatePayment(p) ==
    /\ CanAccept(p)
    /\ \E input \in PaymentInputs, failAt \in 0..5 :
          LET got == GetPaymentByID(input.ID, failAt = 1)
              found == got[2] = NoError
              existing == Deref(got[1])
              refused == found /\ NoUpdatedPayment(existing, input)
              updated == found /\ ~refused /\ failAt # 2
              payment == UpdatePaymentRow(existing, input)
              key == PaymentCacheKey(input.ID)
              didDelete == updated /\ failAt # 3
              didSet == didDelete /\ failAt # 4
              deleted == IF didDelete THEN CacheDelete(cache, key) ELSE cache
              set == IF didSet THEN CacheSet(deleted, key, EncodePaymentRow(payment))
                     ELSE deleted
              cleared == IF didSet /\ failAt # 5 THEN CacheDeleteByPrefix(set, PaymentsPattern)
                         ELSE set
              err == IF ~found THEN (IF got[2] = ErrDataNotFound THEN got[2] ELSE ErrInternal)
                     ELSE IF refused THEN ErrNoUpdatedData
                     ELSE IF failAt \in 2..5 THEN ErrInternal
                     ELSE NoError
          IN /\ req' = [req EXCEPT ![p] = Return(Started("UpdatePayment", input), err)]
             /\ payments' = IF updated THEN [payments EXCEPT ![input.ID] = Ptr(payment)]
                            ELSE payments
             /\ cache' = cleared
             /\ cachedFrom' = [k \in DOMAIN cleared |->
                                  IF k = key /\ didSet
                                  THEN [value |-> payment, by |-> <<input.ID>>]
                                  ELSE cachedFrom[k]]
    /\ UNCHANGED <<products, categories, users, orders, created, lastCreated, env, calls>>

\* one worker, one call at a time
NextUpdate ==
    \E p \in {1} :
        \/ UpdateProductCall(p)
        \/ UpdateUser(p)
        \/ UpdatePayment(p)
        \/ HandleUpdateCategory(p)
        \/ UpdateCategoryStep(p)
        \/ Respond(p)

SpecUpdate == InitUpdate /\ [][NextUpdate]_vars

UpdateOps == {"UpdateCategory", "UpdatePayment", "UpdateUser", "UpdateProduct"}

\* the errors of the storage and of the cache, as the services return them
InfrastructureErrors == {ErrInternal, ErrStorage, ErrCache}

\* the entity an update was given, and the row storage holds under its id
GivenEntity(r) == IF r.op = "UpdateCategory" THEN Deref(r.category) ELSE Deref(r.input)
StoredRow(r) ==
    Row(CASE r.op = "UpdateCategory" -> categories
          [] r.op = "UpdatePayment" -> payments
          [] r.op = "UpdateUser" -> users
          [] OTHER -> products,
        r.id)

\* all supplied fields are empty
SuppliedNothing(op, e) ==
    CASE op = "UpdateCategory" -> e.Name = ""
      [] op = "UpdatePayment" -> e.Name = "" /\ e.Type = "" /\ e.Logo = ""
      [] op = "UpdateUser" -> e.Name = "" /\ e.Email = "" /\ e.Password = "" /\ e.Role = ""
      [] OTHER -> e.CategoryID = 0 /\ e.Name = "" /\ e.Image = "" /\ e.Price = 0 /\ e.Stock = 0

\* all compared fields equal the stored ones
SuppliedStored(op, e, row) ==
    CASE op = "UpdateCategory" -> e.Name = row.Name
      [] op = "UpdatePayment" -> e.Name = row.Name /\ e.Type = row.Type /\ e.Logo = row.Logo
      [] op = "UpdateUser" -> e.Name = row.Name /\ e.Email = row.Email /\ e.Role = row.Role
      [] OTHER -> /\ e.CategoryID = row.CategoryID
                  /\ e.Name = row.Name
                  /\ e.Image = row.Image
                  /\ e.Price = row.Price
                  /\ e.Stock = row.Stock

\* the error with which the update of this step is to be refused, read before the step
Refusal(r) ==
    IF IsNil(StoredRow(r)) THEN ErrDataNotFound
    ELSE IF SuppliedNothing(r.op, GivenEntity(r))
            \/ SuppliedStored(r.op, GivenEntity(r), Deref(StoredRow(r)))
    THEN ErrNoUpdatedData
    ELSE NoError

\* the step in which an update looks its row up and checks what it was given
Decides(p) ==
    /\ req'[p].op \in UpdateOps
    /\ \/ req[p].pc = "idle" /\ req'[p].pc = "done"
       \/ req[p].pc = "update:find" /\ req'[p].pc # "update:find"

\* C36: an update of an id that is not in storage returns NotFound, and one whose
\* supplied fields are all empty or whose compared fields all equal the stored ones
\* returns NoUpdatedData (unless the lookup itself fails); an update that returns
\* either of the two leaves every table and every cache entry as it was.
C36_RefusedUpdateChangesNothing ==
    [][\A p \in Procs :
          Decides(p)
          => /\ (Refusal(req'[p]) # NoError /\ req'[p].err \notin InfrastructureErrors)
                => (req'[p].pc = "done" /\ req'[p].err = Refusal(req'[p]))
             /\ (req'[p].pc = "done" /\ req'[p].err \in {ErrDataNotFound, ErrNoUpdatedData})
                => UNCHANGED <<products, categories, users, payments, cache>>]_vars

\* an UpdateProduct has been refused with NoUpdatedData while the product's cache
\* entry, written by an earlier update, is in place
C36_Witness ==
    /\ \E p \in Procs :
          /\ req[p].op = "UpdateProduct"
          /\ req[p].pc = "done"
          /\ req[p].err = ErrNoUpdatedData
          /\ ProductCacheKey(req[p].id) \in DOMAIN cache

\* C37: UpdateUser called with a non-empty new password for a stored user stores the
\* hash of the new password (unless the storage or the cache fails), whatever name,
\* email and role come with it.
C37_SuppliedPasswordIsStored ==
    [][\A p \in Procs :
          (/\ req[p].pc = "idle"
           /\ req'[p].op = "UpdateUser"
           /\ req'[p].pc = "done"
           /\ ~IsNil(Row(users, req'[p].id))
           /\ Deref(req'[p].input).Password # ""
           /\ req'[p].err \notin InfrastructureErrors)
          => Deref(Row(users', req'[p].id)).Password
                = HashPassword(Deref(req'[p].input).Password)]_vars

\* the stored product of a returned UpdateProduct, before and after the step
ProductBefore(p) == Deref(Row(products, req'[p].id))
ProductAfter(p) == Deref(Row(products', req'[p].id))

\* a field of the stored row after an update: unchanged when the supplied value is
\* the zero value, the supplied value otherwise
FieldUpdated(supplied, zero, before, after) ==
    IF supplied = zero THEN after = before ELSE after = supplied

\* C38: a successful UpdateProduct leaves the stored value of every field supplied
\* as zero (category id 0, empty name or image, price 0, stock 0) unchanged, stores
\* every other supplied field, and writes to the cache the stored row (with its
\* category attached); no UpdateProduct sets a stock or a price to 0.
C38_ZeroFieldsAreNotSupplied ==
    [][\A p \in Procs :
          (req[p].pc = "idle" /\ req'[p].op = "UpdateProduct" /\ req'[p].pc = "done")
          => /\ req'[p].err = NoError
                => LET given == Deref(req'[p].input)
                       cached == DecodeProductRow(cache'[ProductCacheKey(req'[p].id)])
                   IN /\ FieldUpdated(given.CategoryID, 0, ProductBefore(p).CategoryID,
                                      ProductAfter(p).CategoryID)
                      /\ FieldUpdated(given.Name, "", ProductBefore(p).Name,
                                      ProductAfter(p).Name)
                      /\ FieldUpdated(given.Image, "", ProductBefore(p).Image,
                                      ProductAfter(p).Image)
                      /\ FieldUpdated(given.Price, 0, ProductBefore(p).Price,
                                      ProductAfter(p).Price)
                      /\ FieldUpdated(given.Stock, 0, ProductBefore(p).Stock,
                                      ProductAfter(p).Stock)
                      /\ [cached EXCEPT !.Category = Nil] = ProductAfter(p)
                      /\ cached.Category = Row(categories, ProductAfter(p).CategoryID)
             /\ \A id \in DOMAIN products :
                   /\ Deref(products'[id]).Stock = 0 => Deref(products[id]).Stock = 0
                   /\ Deref(products'[id]).Price = 0 => Deref(products[id]).Price = 0]_vars

\* an UpdateProduct that supplied a new stock and no price has succeeded
C38_Witness ==
    \E p \in Procs :
        /\ req[p].op = "UpdateProduct"
        /\ req[p].pc = "done"
        /\ req[p].err = NoError
        /\ Deref(req[p].input).Price = 0
        /\ Deref(req[p].input).Stock = MaxStock - 1
        /\ Deref(Row(products, req[p].id)).Stock = MaxStock - 1
        /\ Deref(Row(products, req[p].id)).Price = MaxPrice

\* the first check of authMiddleware that a request fails, from its header and the
\* time alone: NoError when it passes them all
FirstFailedCheck(c) ==
    LET header == Deref(c.header)
        fields == header.fields
    IN IF header.empty THEN ErrEmptyAuthorizationHeader
       ELSE IF Len(fields) # 2 THEN ErrInvalidAuthorizationHeader
       ELSE IF fields[1] \notin {"bearer", "Bearer", "BEARER"} THEN ErrInvalidAuthorizationType
       ELSE IF fields[2].key # SymmetricKey THEN ErrInvalidToken
       ELSE IF c.now > fields[2].payload.ExpiredAt THEN ErrExpiredToken
       ELSE NoError

\* C39: on a route behind authMiddleware, a request that fails one of the checks
\* (empty header, not two fields, type not "bearer" in any case, token invalid,
\* token expired) is aborted with the error of the first check it fails, which is
\* answered 401, without a payload stored and without the next handler called; a
\* request that passes them all is not aborted by authMiddleware.
C39_FirstFailedCheckAborts ==
    \A p \in Procs :
        LET c == req[p].ctx
        IN (c.route \in ProtectedRoutes /\ req[p].pc \in {"chain", "done"})
           => IF FirstFailedCheck(c) # NoError
              THEN /\ c.handlers[c.index] = "authMiddleware"
                   /\ IsNil(c.payload)
                   /\ ~c.ran
                   /\ req[p].pc = "done"
                      => /\ req[p].err = FirstFailedCheck(c)
                         /\ c.aborted
                         /\ c.status = 401
              ELSE req[p].pc = "done" => c.handlers[c.index] # "authMiddleware"

\* a header of one field that is not "Bearer" either has been refused as a header
\* that is not of two fields
C39_Witness ==
    \E p \in Procs :
        /\ req[p].ctx.route \in ProtectedRoutes
        /\ req[p].pc = "done"
        /\ Deref(req[p].ctx.header).fields = <<"Basic">>
        /\ req[p].err = ErrInvalidAuthorizationHeader
        /\ req[p].ctx.status = 401

(***************************************************************************)
(* AuthService.Login (SpecLogin): logins with a stored and with an unknown *)
(* email, with the stored, a later and a wrong password, while UpdateUser  *)
(* changes the stored password.  req[p].input is the pair of credentials   *)
(* and req[p].token the access token returned.                             *)
(***************************************************************************)
ErrTokenCreation == "ErrTokenCreation"

\* UserRepository.GetUserByEmail(email)
GetUserByEmail(email, fail) ==
    IF fail THEN <<Nil, ErrStorage>>
    ELSE IF \A id \in DOMAIN users : IsNil(users[id]) \/ Deref(users[id]).Email # email
    THEN <<Nil, ErrDataNotFound>>
    ELSE <<users[CHOOSE id \in DOMAIN users :
                    ~IsNil(users[id]) /\ Deref(users[id]).Email = email], NoError>>

\* cmutil.ComparePassword(password, hashedPassword): nil when the hash is the password's
ComparePassword(password, hashedPassword) ==
    IF HashPassword(password) = hashedPassword THEN NoError ELSE "mismatched password"

\* Token.CreateToken(user), at time now with the configured duration MaxTime
CreateToken(user, now, fail) ==
    IF fail THEN <<Nil, ErrTokenCreation>>
    ELSE <<Ptr([key |-> SymmetricKey,
                payload |-> [UserID |-> user.ID, Role |-> user.Role,
                             ExpiredAt |-> now + MaxTime]]), NoError>>

\* what Login returns for the error of GetUserByEmail
LoginLookupErrorRevealing(err) == IF err = ErrDataNotFound THEN err ELSE ErrInternal
LoginLookupError(err) == IF err = ErrDataNotFound THEN ErrInvalidCredentials ELSE ErrInternal

Credentials == [Email : {DefaultEmail, "x"}, Password : {DefaultPassword, "new", "wrong"}]

\* AuthService.Login(email, password); failAt is the call that fails, if any:
\* 1 GetUserByEmail, 2 CreateToken
Login(p) ==
    /\ CanAccept(p)
    /\ \E input \in Credentials, failAt \in 0..2 :
          LET got == GetUserByEmail(input.Email, failAt = 1)
              user == Deref(got[1])
              accessToken == CreateToken(user, 0, failAt = 2)
              r == [NewReq("Login") EXCEPT !.input = Ptr(input)]
          IN req' = [req EXCEPT ![p] =
                        IF got[2] # NoError THEN Return(r, LoginLookupError(got[2]))
                        ELSE IF ComparePassword(input.Password, user.Password) # NoError
                        THEN Return(r, ErrInvalidCredentials)
                        ELSE IF accessToken[2] # NoError THEN Return(r, ErrTokenCreation)
                        ELSE Return([r EXCEPT !.token = accessToken[1]], NoError)]
    /\ UNCHANGED <<products, categories, users, payments, orders, cache, cachedFrom, created,
                   lastCreated, env, calls>>

NextLogin ==
    \E p \in Procs :
        \/ Login(p)
        \/ OneAtATime(p) /\ UpdateUser(p)
        \/ Respond(p)

SpecLogin == InitUpdate /\ [][NextLogin]_vars

\* the email of the credentials is that of a stored user
Registered(input) ==
    \E id \in DOMAIN users : ~IsNil(users[id]) /\ Deref(users[id]).Email = input.Email

\* the credentials are those of a stored user: its email and the password of its hash
Valid(input) ==
    \E id \in DOMAIN users :
        /\ ~IsNil(users[id])
        /\ Deref(users[id]).Email = input.Email
        /\ Deref(users[id]).Password = HashPassword(input.Password)

\* a login that was refused, and not for a failure of the storage or of the token maker
Refused(p) ==
    /\ req[p].op = "Login"
    /\ req[p].pc = "done"
    /\ req[p].err \notin {NoError, ErrInternal, ErrTokenCreation}

\* C40: a login with an unknown email and one with a known email and a wrong password
\* return the same error, InvalidCredentials, and no token (any two refused logins
\* return the same error); a token is returned only for the email of a stored user
\* with the password of its stored hash.
C40_LoginDoesNotRevealEmails ==
    /\ [](\A p, q \in Procs :
             /\ (Refused(p) /\ Refused(q)) => req[p].err = req[q].err
             /\ Refused(p) => IsNil(req[p].token))
    /\ [][\A p \in Procs :
             (req[p].pc = "idle" /\ req'[p].op = "Login")
             => LET input == Deref(req'[p].input)
                IN /\ ~IsNil(req'[p].token) => (Valid(input) /\ req'[p].err = NoError)
                   /\ (~Valid(input) /\ req'[p].err # ErrInternal)
                      => (req'[p].err = ErrInvalidCredentials /\ IsNil(req'[p].token))
                   /\ (Valid(input) /\ req'[p].err = NoError) => ~IsNil(req'[p].token)]_vars

\* a login with an unknown email and a login with the stored email and a wrong
\* password have both been refused
C40_Witness ==
    \E p, q \in Procs :
        /\ Refused(p)
        /\ Refused(q)
        /\ ~Registered(Deref(req[p].input))
        /\ Registered(Deref(req[q].input))
        /\ users # NoRows

====
